---- MODULE Spec2Model ----
(***************************************************************************)
(* Model of the graig activity bot: the activity store (db.py), the event  *)
(* handlers of main.py that write to it, and the text utilities they use.  *)
(*                                                                         *)
(* Every `await` on a database call is a suspend point.  A database call   *)
(* is modelled by two steps: the handler's local code up to the call       *)
(* (which evaluates the arguments, the clock included) and the effect of   *)
(* the call on the collection, which happens later; other handlers and     *)
(* the clock may move in between.                                          *)
(*                                                                         *)
(* A nullable value (Python None) is a sequence of length <= 1: <<>> is    *)
(* None and <<v>> is the value v.  Time is counted in clock ticks, with    *)
(* TicksPerSec ticks to the second.  A string that matters character by    *)
(* character (message text, an emoji) is a sequence of characters.         *)
(***************************************************************************)
EXTENDS Integers, Sequences, FiniteSets, TLC

MaxClock == 2
MaxEvents == 3
MaxStoreEvents == 2
MaxStoreClock == 1
MaxHandlers == 2
MaxSessions == 3
MaxMessages == 2
MaxSpareEmojis == 1
MaxReactions == 3
MaxActivities == 3
MaxStamp == 1
MaxBoardDocs == 2
MaxCalls == 3
MaxRandomCalls == 1
MaxPieces == 3
MaxTextLen == 3
MaxSmallDuration == 130
MaxHours == 25

\* The length of emoji_results = ....to_list(100) in get_message_stats.
ToListLength == 100

\* {"$limit": 5} of the leaderboard pipelines.
LeaderboardLimit == 5
TicksPerSec == 2

Users == {"u1", "u2"}
Guilds == {"g1", "g2"}
Channels == {"c1", "c2"}
DisplayNames == {"n1", "n2"}
MessageIds == {"m1"}

\* The (user, guild) pairs events come from.
Members == {<<"u1", "g1">>, <<"u1", "g2">>, <<"u2", "g1">>}

None == <<>>
Some(v) == <<v>>
Val(o) == o[1]

ChannelName(c) == IF c = "c1" THEN "General" ELSE "Music"

VARIABLES
    clock,           \* datetime.now(timezone.utc), in ticks
    users,           \* db.users: sequence of documents
    voice_sessions,  \* db.voice_sessions: sequence of documents, _id = index
    messages,        \* db.messages
    reactions,       \* db.reactions
    tasks,           \* the running event handlers (asyncio tasks)
    dispatched,      \* number of events dispatched so far
    reply,           \* the last query of the store and what it returned
    templates_cache, \* meme.py: _templates_cache
    calls,           \* the get_meme_templates calls, running and returned
    random_calls,    \* the get_random_meme calls, running and returned
    interaction      \* the /leaderboard invocation and the replies it got

store == <<users, voice_sessions, messages, reactions>>
queries == <<reply>>
meme == <<templates_cache, calls, random_calls>>
commands == <<interaction>>
vars == <<clock, store, tasks, dispatched, queries, meme, commands>>

Handlers == 1 .. MaxHandlers

(***************************************************************************)
(* utils.py                                                                *)
(***************************************************************************)

\* Characters of the modelled alphabet, by the classes the two patterns use.
EmojiChars == {"U+1F600", "U+1F44D"}
DigitChars == {"1"}
WordChars == {"a", "w", "_"} \cup DigitChars
TextChars == EmojiChars \cup WordChars \cup {"<", ">", ":", " "}

RECURSIVE RunEnd(_, _, _)
\* The index after the longest run of characters of class cls starting at i.
RunEnd(text, i, cls) ==
    IF i <= Len(text) /\ text[i] \in cls THEN RunEnd(text, i + 1, cls) ELSE i

At(text, i, c) == i <= Len(text) /\ text[i] = c

\* CUSTOM_EMOJI_PATTERN <a?:\w+:\d+> matched at position i: the index after
\* the match, or 0 when there is no match at i.
CustomMatchEnd(text, i) ==
    IF ~At(text, i, "<") THEN 0
    ELSE LET j == IF At(text, i + 1, "a") /\ At(text, i + 2, ":")
                  THEN i + 2 ELSE i + 1
         IN IF ~At(text, j, ":") THEN 0
            ELSE LET w == RunEnd(text, j + 1, WordChars)
                 IN IF w = j + 1 \/ ~At(text, w, ":") THEN 0
                    ELSE LET d == RunEnd(text, w + 1, DigitChars)
                         IN IF d = w + 1 \/ ~At(text, d, ">") THEN 0
                            ELSE d + 1

RECURSIVE FindAllCustom(_, _)
\* CUSTOM_EMOJI_PATTERN.findall(text) from position i on.
FindAllCustom(text, i) ==
    IF i > Len(text) THEN <<>>
    ELSE LET e == CustomMatchEnd(text, i)
         IN IF e = 0 THEN FindAllCustom(text, i + 1)
            ELSE <<SubSeq(text, i, e - 1)>> \o FindAllCustom(text, e)

RECURSIVE FindAllUnicode(_, _)
\* UNICODE_EMOJI_PATTERN.findall(text) from position i on: the pattern is a
\* character class followed by +, so a match is a maximal run.
FindAllUnicode(text, i) ==
    IF i > Len(text) THEN <<>>
    ELSE LET e == RunEnd(text, i, EmojiChars)
         IN IF e = i THEN FindAllUnicode(text, i + 1)
            ELSE <<SubSeq(text, i, e - 1)>> \o FindAllUnicode(text, e)

extract_emojis(text) == FindAllCustom(text, 1) \o FindAllUnicode(text, 1)

\* A call of extract_emojis(text).
call_extract_emojis(text) ==
    /\ reply' = [op |-> "extract_emojis", text |-> text,
                 result |-> extract_emojis(text)]
    /\ UNCHANGED <<clock, store, tasks, dispatched, meme, commands>>

\* The decimal digits, the digit of d at place d + 1.
Digits == <<"0", "1", "2", "3", "4", "5", "6", "7", "8", "9">>

RECURSIVE str(_)
\* str(n) of an integer, as an f-string formats it.
str(n) ==
    IF n < 0 THEN <<"-">> \o str(-n)
    ELSE IF n < 10 THEN <<Digits[n + 1]>>
    ELSE str(n \div 10) \o <<Digits[(n % 10) + 1]>>

\* format_duration with `seconds <= 60` for its first test.
format_duration_minute_late(seconds) ==
    IF seconds <= 60 THEN str(seconds) \o <<"s">>
    ELSE IF seconds < 3600 THEN str(seconds \div 60) \o <<"m">>
    ELSE LET hours == seconds \div 3600
             minutes == (seconds % 3600) \div 60
         IN IF minutes # 0
            THEN str(hours) \o <<"h", " ">> \o str(minutes) \o <<"m">>
            ELSE str(hours) \o <<"h">>

\* format_duration; // is the floored division, which \div is.
format_duration(seconds) ==
    IF seconds < 60 THEN str(seconds) \o <<"s">>
    ELSE IF seconds < 3600 THEN str(seconds \div 60) \o <<"m">>
    ELSE LET hours == seconds \div 3600
             minutes == (seconds % 3600) \div 60
         IN IF minutes # 0
            THEN str(hours) \o <<"h", " ">> \o str(minutes) \o <<"m">>
            ELSE str(hours) \o <<"h">>

\* A call of format_duration(seconds).
call_format_duration(seconds) ==
    /\ reply' = [op |-> "format_duration", seconds |-> seconds,
                 result |-> format_duration(seconds)]
    /\ UNCHANGED <<clock, store, tasks, dispatched, meme, commands>>

(***************************************************************************)
(* db.py: the write operations                                             *)
(***************************************************************************)

Indexes(coll) == 1 .. Len(coll)

\* The first document of coll whose _id is user_id, or 0.
FirstUser(coll, user_id) ==
    IF \E i \in Indexes(coll) : coll[i]._id = user_id
    THEN CHOOSE i \in Indexes(coll) :
            /\ coll[i]._id = user_id
            /\ \A k \in 1 .. (i - 1) : coll[k]._id # user_id
    ELSE 0

\* update_one as it would be were it an insert_one.
users_insert_one(coll, user_id, username, now) ==
    Append(coll, [_id |-> user_id, username |-> username, updated_at |-> now])

\* update_one without upsert=True: no document is inserted.
users_update_one_no_upsert(coll, user_id, username, now) ==
    LET i == FirstUser(coll, user_id)
    IN IF i # 0
       THEN [coll EXCEPT ![i] = [@ EXCEPT !.username = username,
                                         !.updated_at = now]]
       ELSE coll

\* db.users.update_one({"_id": user_id}, {"$set": ...}, upsert=True)
users_update_one(coll, user_id, username, now) ==
    LET i == FirstUser(coll, user_id)
    IN IF i # 0
       THEN [coll EXCEPT ![i] = [@ EXCEPT !.username = username,
                                         !.updated_at = now]]
       ELSE Append(coll, [_id |-> user_id, username |-> username,
                          updated_at |-> now])

\* The document start_voice_session inserts.
new_voice_session(user_id, guild_id, channel_id, channel_name, now) ==
    [user_id |-> user_id, guild_id |-> guild_id, channel_id |-> channel_id,
     channel_name |-> channel_name, joined_at |-> now, left_at |-> None,
     duration_seconds |-> None]

\* The filter of end_voice_session's find_one.
open_sessions(coll, user_id, guild_id) ==
    {i \in Indexes(coll) : /\ coll[i].user_id = user_id
                           /\ coll[i].guild_id = guild_id
                           /\ coll[i].left_at = None}

\* find_one as it would be with the sort ascending: the oldest open session.
find_one_session_oldest(coll, user_id, guild_id) ==
    LET open == open_sessions(coll, user_id, guild_id)
    IN IF open = {} THEN {None}
       ELSE {Some(i) : i \in {k \in open :
                \A m \in open : coll[k].joined_at <= coll[m].joined_at}}

\* find_one as it would be without "left_at": None in the filter.
find_one_session_any(coll, user_id, guild_id) ==
    LET all == {i \in Indexes(coll) : /\ coll[i].user_id = user_id
                                      /\ coll[i].guild_id = guild_id}
    IN IF all = {} THEN {None}
       ELSE {Some(i) : i \in {k \in all :
                \A m \in all : coll[m].joined_at <= coll[k].joined_at}}

\* find_one(filter, sort=[("joined_at", -1)]): the possible results.  The
\* database does not say which of several documents with the same joined_at
\* comes first.
find_one_session(coll, user_id, guild_id) ==
    LET open == open_sessions(coll, user_id, guild_id)
    IN IF open = {} THEN {None}
       ELSE {Some(i) : i \in {k \in open :
                \A m \in open : coll[m].joined_at <= coll[k].joined_at}}

\* int(x / d) for d > 0: Python's int() truncates toward zero.
TruncDiv(x, d) == IF x >= 0 THEN x \div d ELSE -((-x) \div d)

\* int((now - joined_at).total_seconds())
session_duration(now, joined_at) == TruncDiv(now - joined_at, TicksPerSec)

\* update_one as it would be were it a delete_one.
delete_session(coll, id, now, duration) ==
    [i \in 1 .. (Len(coll) - 1) |-> IF i < id THEN coll[i] ELSE coll[i + 1]]

\* update_one as it would be were it an update_many on the open sessions
\* of the session's user and guild.
close_open_sessions(coll, id, now, duration) ==
    [i \in Indexes(coll) |->
        IF /\ id \in Indexes(coll)
           /\ coll[i].user_id = coll[id].user_id
           /\ coll[i].guild_id = coll[id].guild_id
           /\ coll[i].left_at = None \/ i = id
        THEN [coll[i] EXCEPT !.left_at = Some(now),
                             !.duration_seconds = Some(duration)]
        ELSE coll[i]]

\* update_one({"_id": id}, {"$set": {"left_at": now, "duration_seconds": d}})
close_session(coll, id, now, duration) ==
    IF id \in Indexes(coll)
    THEN [coll EXCEPT ![id] = [@ EXCEPT !.left_at = Some(now),
                                        !.duration_seconds = Some(duration)]]
    ELSE coll

\* The document record_message inserts.
new_message(user_id, guild_id, channel_id, message_id, emojis, now) ==
    [user_id |-> user_id, guild_id |-> guild_id, channel_id |-> channel_id,
     message_id |-> message_id, emojis |-> emojis, created_at |-> now]

\* The document record_reaction inserts.
new_reaction(user_id, guild_id, channel_id, message_id, emoji, action, now) ==
    [user_id |-> user_id, guild_id |-> guild_id, channel_id |-> channel_id,
     message_id |-> message_id, emoji |-> emoji, action |-> action,
     created_at |-> now]

(***************************************************************************)
(* db.py: the queries.  An aggregation pipeline is computed stage by       *)
(* stage.  A $sort does not say in which order documents with equal sort   *)
(* keys come, so a query that sorts has a set of possible results.         *)
(***************************************************************************)

\* The keys with the greatest metric: what {"$sort": {metric: -1}},
\* {"$limit": 1} can leave of the groups keys.
top_keys(keys, metric) ==
    LET values == {metric[k] : k \in keys}
        greatest == CHOOSE v \in values : \A w \in values : w <= v
    IN {k \in keys : metric[k] = greatest}

\* $match of get_voice_stats as it would be without guild_id.
voice_match_any_guild(coll, user_id, guild_id) ==
    {i \in Indexes(coll) : /\ coll[i].user_id = user_id
                           /\ coll[i].duration_seconds # None}

\* {"$match": {"user_id": ..., "guild_id": ..., "duration_seconds": {"$ne": None}}}
voice_match(coll, user_id, guild_id) ==
    {i \in Indexes(coll) : /\ coll[i].user_id = user_id
                           /\ coll[i].guild_id = guild_id
                           /\ coll[i].duration_seconds # None}

RECURSIVE sum_duration(_, _)
\* {"$sum": "$duration_seconds"} over the documents ids of coll.
sum_duration(coll, ids) ==
    IF ids = {} THEN 0
    ELSE LET i == CHOOSE k \in ids : TRUE
         IN Val(coll[i].duration_seconds) + sum_duration(coll, ids \ {i})

\* The first pipeline of get_voice_stats and the default for no result.
voice_totals(coll, user_id, guild_id) ==
    LET ids == voice_match(coll, user_id, guild_id)
    IN IF ids = {}
       THEN [total_seconds |-> 0, session_count |-> 0]
       ELSE [total_seconds |-> sum_duration(coll, ids),
             session_count |-> Cardinality(ids)]

\* The second pipeline of get_voice_stats: the possible favorite channels.
favorite_channels(coll, user_id, guild_id) ==
    LET ids == voice_match(coll, user_id, guild_id)
        names == {coll[i].channel_name : i \in ids}
        time == [n \in names |->
                    sum_duration(coll, {i \in ids : coll[i].channel_name = n})]
    IN IF names = {} THEN {None}
       ELSE {Some(n) : n \in top_keys(names, time)}

\* The possible results of get_voice_stats(user_id, guild_id).
voice_stats(coll, user_id, guild_id) ==
    LET totals == voice_totals(coll, user_id, guild_id)
    IN {[total_seconds |-> totals.total_seconds,
         session_count |-> totals.session_count,
         favorite_channel |-> f] :
            f \in favorite_channels(coll, user_id, guild_id)}

\* get_voice_stats: the two aggregations run on the collection as it is.
get_voice_stats(user_id, guild_id) ==
    /\ \E r \in voice_stats(voice_sessions, user_id, guild_id) :
          reply' = [op |-> "get_voice_stats", user_id |-> user_id,
                    guild_id |-> guild_id, result |-> r]
    /\ UNCHANGED <<clock, store, tasks, dispatched, meme, commands>>

RECURSIVE small_subsets(_, _)
\* The subsets of S with r elements, built one element at a time.
small_subsets(S, r) ==
    IF r = 0 THEN {{}}
    ELSE UNION {{T \cup {x} : x \in S \ T} : T \in small_subsets(S, r - 1)}

\* The subsets of S with r elements (r <= Cardinality(S)): those chosen, or
\* those left when the others are taken out, whichever are fewer.
k_subsets(S, r) ==
    IF 2 * r <= Cardinality(S) THEN small_subsets(S, r)
    ELSE {S \ T : T \in small_subsets(S, Cardinality(S) - r)}

\* cursor.to_list(length) after {"$sort": {metric: -1}}: the possible sets
\* of the first length groups.  Groups with a greater metric come before
\* groups with a smaller one; among equal ones any may come first.
to_list(keys, metric, length) ==
    IF Cardinality(keys) <= length THEN {keys}
    ELSE LET cut == CHOOSE c \in {metric[k] : k \in keys} :
                      /\ Cardinality({k \in keys : metric[k] > c}) < length
                      /\ Cardinality({k \in keys : metric[k] >= c}) >= length
             above == {k \in keys : metric[k] > cut}
             tied == {k \in keys : metric[k] = cut}
         IN {above \cup T : T \in k_subsets(tied, length - Cardinality(above))}

\* sum(e["count"] for e in emoji_results): the counts of distinct emojis
\* add up to the number of unwound documents whose emoji is among them.
sum_counts(coll, unwound, emoji_results) ==
    Cardinality({x \in unwound : coll[x[1]].emojis[x[2]] \in emoji_results})

\* {"user_id": user_id, "guild_id": guild_id} on messages or reactions.
pair_match(coll, user_id, guild_id) ==
    {i \in Indexes(coll) : /\ coll[i].user_id = user_id
                           /\ coll[i].guild_id = guild_id}

\* {"$unwind": "$emojis"} of the messages ids with "emojis.0" existing: one
\* document <<i, j>> for the j-th emoji of message i.
unwind_emojis(coll, ids) ==
    UNION {{<<i, j>> : j \in 1 .. Len(coll[i].emojis)} :
              i \in {k \in ids : Len(coll[k].emojis) > 0}}

\* get_message_stats: the possible results.
message_stats(coll, user_id, guild_id) ==
    LET ids == pair_match(coll, user_id, guild_id)
        message_count == Cardinality(ids)
        unwound == unwind_emojis(coll, ids)
        keys == {coll[x[1]].emojis[x[2]] : x \in unwound}
        count == [e \in keys |->
                    Cardinality({x \in unwound : coll[x[1]].emojis[x[2]] = e})]
    IN IF keys = {}
       THEN {[message_count |-> message_count, total_emojis |-> 0,
              top_emoji |-> None, top_emoji_count |-> 0]}
       ELSE {[message_count |-> message_count,
              total_emojis |-> r[2], top_emoji |-> Some(r[1]),
              top_emoji_count |-> count[r[1]]] :
                r \in UNION {
                    LET total_emojis ==
                            sum_counts(coll, unwound, emoji_results)
                    IN {<<top, total_emojis>> :
                            top \in top_keys(emoji_results, count)} :
                    emoji_results \in to_list(keys, count, ToListLength)}}

\* get_message_stats: count_documents and the aggregation run on the
\* collection as it is.
get_message_stats(user_id, guild_id) ==
    /\ \E r \in message_stats(messages, user_id, guild_id) :
          reply' = [op |-> "get_message_stats", user_id |-> user_id,
                    guild_id |-> guild_id, result |-> r]
    /\ UNCHANGED <<clock, store, tasks, dispatched, meme, commands>>

\* {"user_id": user_id, "guild_id": guild_id, "action": action}
action_match(coll, user_id, guild_id, action) ==
    {i \in pair_match(coll, user_id, guild_id) : coll[i].action = action}

\* $match of reaction_pipeline as it would be without "action": "add".
reaction_match_any_action(coll, user_id, guild_id) ==
    pair_match(coll, user_id, guild_id)

\* $match of reaction_pipeline.
reaction_match(coll, user_id, guild_id) ==
    action_match(coll, user_id, guild_id, "add")

\* get_reaction_stats: the possible results.
reaction_stats(coll, user_id, guild_id) ==
    LET add_count == Cardinality(action_match(coll, user_id, guild_id, "add"))
        remove_count ==
            Cardinality(action_match(coll, user_id, guild_id, "remove"))
        ids == reaction_match(coll, user_id, guild_id)
        keys == {coll[i].emoji : i \in ids}
        count == [e \in keys |-> Cardinality({i \in ids : coll[i].emoji = e})]
    IN IF keys = {}
       THEN {[add_count |-> add_count, remove_count |-> remove_count,
              top_reaction |-> None, top_reaction_count |-> 0]}
       ELSE {[add_count |-> add_count, remove_count |-> remove_count,
              top_reaction |-> Some(e), top_reaction_count |-> count[e]] :
                e \in top_keys(keys, count)}

\* get_reaction_stats: the counts and the aggregation run on the collection
\* as it is.
get_reaction_stats(user_id, guild_id) ==
    /\ \E r \in reaction_stats(reactions, user_id, guild_id) :
          reply' = [op |-> "get_reaction_stats", user_id |-> user_id,
                    guild_id |-> guild_id, result |-> r]
    /\ UNCHANGED <<clock, store, tasks, dispatched, meme, commands>>

\* find_one({"user_id": ..., "guild_id": ...}, sort=[("joined_at", 1)]) and
\* `if voice: dates.append(voice["joined_at"])`: the dates appended.
first_joined_at(coll, user_id, guild_id) ==
    LET ids == pair_match(coll, user_id, guild_id)
    IN IF ids = {} THEN <<>>
       ELSE LET voice == CHOOSE i \in ids :
                            \A k \in ids : coll[i].joined_at <= coll[k].joined_at
            IN <<coll[voice].joined_at>>

\* The same for messages and reactions, sorted by created_at.
first_created_at(coll, user_id, guild_id) ==
    LET ids == pair_match(coll, user_id, guild_id)
    IN IF ids = {} THEN <<>>
       ELSE LET first == CHOOSE i \in ids :
                            \A k \in ids : coll[i].created_at <= coll[k].created_at
            IN <<coll[first].created_at>>

\* `min(dates) if dates else None` as it would be with max.
max_dates(dates) ==
    IF dates = <<>> THEN None
    ELSE Some(CHOOSE d \in {dates[i] : i \in Indexes(dates)} :
                 \A i \in Indexes(dates) : dates[i] <= d)

\* min(dates) if dates else None
min_dates(dates) ==
    IF dates = <<>> THEN None
    ELSE Some(CHOOSE d \in {dates[i] : i \in Indexes(dates)} :
                 \A i \in Indexes(dates) : d <= dates[i])

\* The result of get_first_activity(user_id, guild_id).
first_activity(sessions, msgs, reacts, user_id, guild_id) ==
    min_dates(first_joined_at(sessions, user_id, guild_id)
                \o first_created_at(msgs, user_id, guild_id)
                \o first_created_at(reacts, user_id, guild_id))

\* get_first_activity: the three lookups run on the collections as they are.
get_first_activity(user_id, guild_id) ==
    /\ reply' = [op |-> "get_first_activity", user_id |-> user_id,
                 guild_id |-> guild_id,
                 result |-> first_activity(voice_sessions, messages,
                                           reactions, user_id, guild_id)]
    /\ UNCHANGED <<clock, store, tasks, dispatched, meme, commands>>

\* A date filter of $gt and $lt.
date_filter_exclusive(t, start_date, end_date) ==
    /\ start_date # None => t > Val(start_date)
    /\ end_date # None => t < Val(end_date)

\* The date filter of get_guild_leaderboards on a timestamp t: $gte
\* start_date when start_date is given, $lte end_date when end_date is.
date_filter(t, start_date, end_date) ==
    /\ start_date # None => t >= Val(start_date)
    /\ end_date # None => t <= Val(end_date)

\* voice_match: the guild's sessions with a duration and, when there is a
\* date filter, with left_at a date within it.
leaderboard_voice_match(coll, guild_id, start_date, end_date) ==
    {i \in Indexes(coll) :
        /\ coll[i].guild_id = guild_id
        /\ coll[i].duration_seconds # None
        /\ \/ start_date = None /\ end_date = None
           \/ /\ coll[i].left_at # None
              /\ date_filter(Val(coll[i].left_at), start_date, end_date)}

\* messages_match and reactions_match less the action: the guild's
\* documents with created_at within the date filter.
leaderboard_match(coll, guild_id, start_date, end_date) ==
    {i \in Indexes(coll) :
        /\ coll[i].guild_id = guild_id
        /\ date_filter(coll[i].created_at, start_date, end_date)}

RECURSIVE sort_limit_ascending(_, _)
\* $sort with {metric: 1}: the least metric first.
sort_limit_ascending(groups, n) ==
    IF n = 0 \/ groups = {} THEN {<<>>}
    ELSE UNION {{<<x>> \o rest :
                    rest \in sort_limit_ascending(groups \ {x}, n - 1)} :
                  x \in {y \in groups : \A z \in groups : y[2] <= z[2]}}

RECURSIVE sort_limit(_, _)
\* {"$sort": {metric: -1}}, {"$limit": n} on groups, the documents
\* <<_id, metric>> of a $group: the possible lists.  Among groups of equal
\* metric any may come first.
sort_limit(groups, n) ==
    IF n = 0 \/ groups = {} THEN {<<>>}
    ELSE UNION {{<<x>> \o rest : rest \in sort_limit(groups \ {x}, n - 1)} :
                  x \in {y \in groups : \A z \in groups : z[2] <= y[2]}}

\* $lookup from users on _id and {"$arrayElemAt": ["$user_info.username", 0]}:
\* the projected username, a missing field when no user document matches.
project_username(coll, user_id) ==
    IF FirstUser(coll, user_id) = 0 THEN None
    ELSE Some(coll[FirstUser(coll, user_id)].username)

\* r.get("username", "Unknown") as it would be without the default: None
\* for a missing field.
get_username_no_default(projected) ==
    IF projected = None THEN None ELSE projected

\* r.get("username", "Unknown"): the username of the entry, never None.
get_username(projected) ==
    IF projected = None THEN Some("Unknown") ELSE projected

\* The lists of (user_id, username, metric) of one leaderboard: the groups
\* <<user_id, metric>> sorted, limited and joined with users.
leaderboard(groups, coll_users) ==
    {[i \in 1 .. Len(list) |->
        <<list[i][1], get_username(project_username(coll_users, list[i][1])),
          list[i][2]>>] :
        list \in sort_limit(groups, LeaderboardLimit)}

\* voice_time
voice_time_leaderboard(coll, coll_users, guild_id, start_date, end_date) ==
    LET ids == leaderboard_voice_match(coll, guild_id, start_date, end_date)
        keys == {coll[i].user_id : i \in ids}
        total_seconds ==
            {<<u, sum_duration(coll, {i \in ids : coll[i].user_id = u})>> :
                u \in keys}
    IN leaderboard(total_seconds, coll_users)

\* messages
messages_leaderboard(coll, coll_users, guild_id, start_date, end_date) ==
    LET ids == leaderboard_match(coll, guild_id, start_date, end_date)
        keys == {coll[i].user_id : i \in ids}
        message_count ==
            {<<u, Cardinality({i \in ids : coll[i].user_id = u})>> : u \in keys}
    IN leaderboard(message_count, coll_users)

\* emojis
emojis_leaderboard(coll, coll_users, guild_id, start_date, end_date) ==
    LET ids == leaderboard_match(coll, guild_id, start_date, end_date)
        unwound == unwind_emojis(coll, ids)
        keys == {coll[x[1]].user_id : x \in unwound}
        emoji_count ==
            {<<u, Cardinality({x \in unwound : coll[x[1]].user_id = u})>> :
                u \in keys}
    IN leaderboard(emoji_count, coll_users)

\* reactions, were every action counted.
reactions_leaderboard_any_action(coll, coll_users, guild_id, start_date, end_date) ==
    LET ids == leaderboard_match(coll, guild_id, start_date, end_date)
        keys == {coll[i].user_id : i \in ids}
        reaction_count ==
            {<<u, Cardinality({i \in ids : coll[i].user_id = u})>> : u \in keys}
    IN leaderboard(reaction_count, coll_users)

\* reactions
reactions_leaderboard(coll, coll_users, guild_id, start_date, end_date) ==
    LET ids == {i \in leaderboard_match(coll, guild_id, start_date, end_date) :
                  coll[i].action = "add"}
        keys == {coll[i].user_id : i \in ids}
        reaction_count ==
            {<<u, Cardinality({i \in ids : coll[i].user_id = u})>> : u \in keys}
    IN leaderboard(reaction_count, coll_users)

\* get_guild_leaderboards: the four aggregations run on the collections as
\* they are.
get_guild_leaderboards(guild_id, start_date, end_date) ==
    /\ \E v \in voice_time_leaderboard(voice_sessions, users, guild_id,
                                        start_date, end_date),
          m \in messages_leaderboard(messages, users, guild_id,
                                      start_date, end_date),
          e \in emojis_leaderboard(messages, users, guild_id,
                                    start_date, end_date),
          r \in reactions_leaderboard(reactions, users, guild_id,
                                       start_date, end_date) :
          reply' = [op |-> "get_guild_leaderboards", guild_id |-> guild_id,
                    start_date |-> start_date, end_date |-> end_date,
                    result |-> [voice_time |-> v, messages |-> m,
                                emojis |-> e, reactions |-> r]]
    /\ UNCHANGED <<clock, store, tasks, dispatched, meme, commands>>

(***************************************************************************)
(* meme.py: the template cache                                             *)
(***************************************************************************)

RECURSIVE replace(_, _, _)
\* text.replace(old, new) for a one-character old: every occurrence of old
\* in text, from left to right, becomes the characters of new.
replace(text, old, new) ==
    IF text = <<>> THEN <<>>
    ELSE (IF Head(text) = old THEN new ELSE <<Head(text)>>)
            \o replace(Tail(text), old, new)

\* encode_meme_text with the space replaced before the underscore.
encode_meme_text_space_first(text) ==
    IF text = <<>> THEN <<"_">>
    ELSE LET t1 == replace(text, " ", <<"_">>)
             t2 == replace(t1, "_", <<"_", "_">>)
             t3 == replace(t2, "-", <<"-", "-">>)
             t4 == replace(t3, "?", <<"~", "q">>)
             t5 == replace(t4, "#", <<"~", "h">>)
             t6 == replace(t5, "/", <<"~", "s">>)
             t7 == replace(t6, "\"", <<"'", "'">>)
         IN replace(t7, "\n", <<"~", "n">>)

\* encode_meme_text: "_" for the empty text, else the eight replacements one
\* after the other, each on the result of the one before.
encode_meme_text(text) ==
    IF text = <<>> THEN <<"_">>
    ELSE LET t1 == replace(text, "_", <<"_", "_">>)
             t2 == replace(t1, "-", <<"-", "-">>)
             t3 == replace(t2, " ", <<"_">>)
             t4 == replace(t3, "?", <<"~", "q">>)
             t5 == replace(t4, "#", <<"~", "h">>)
             t6 == replace(t5, "/", <<"~", "s">>)
             t7 == replace(t6, "\"", <<"'", "'">>)
         IN replace(t7, "\n", <<"~", "n">>)

\* A call of encode_meme_text(text).
call_encode_meme_text(text) ==
    /\ reply' = [op |-> "encode_meme_text", text |-> text,
                 result |-> encode_meme_text(text)]
    /\ UNCHANGED <<clock, store, tasks, dispatched, meme, commands>>

\* The lists of templates that the catalog may answer with, by template
\* id; the catalog may be empty.
TemplateLists == {<<>>, <<"drake">>, <<"drake", "fry">>}

\* The statuses of a response.
Statuses == {200, 500}

\* `_templates_cache and not force_refresh`: an empty list is no hit.
cache_hit_truthy(cache, force_refresh) ==
    cache # None /\ Val(cache) # <<>> /\ ~force_refresh

\* `_templates_cache is not None and not force_refresh`
cache_hit(cache, force_refresh) ==
    cache # None /\ ~force_refresh

\* A call of get_meme_templates(force_refresh) up to its first await: it
\* returns the cache, or enters session.get.  seen is the cache that the
\* call found, requested whether it made the HTTP request and status the
\* status of the response, once there is one.
call_get_meme_templates(force_refresh) ==
    /\ Len(calls) < MaxCalls
    /\ IF cache_hit(templates_cache, force_refresh)
       THEN calls' = Append(calls, [pc |-> "done",
                                    force_refresh |-> force_refresh,
                                    seen |-> templates_cache,
                                    requested |-> FALSE,
                                    status |-> None,
                                    result |-> templates_cache])
       ELSE calls' = Append(calls, [pc |-> "get",
                                    force_refresh |-> force_refresh,
                                    seen |-> templates_cache,
                                    requested |-> TRUE,
                                    status |-> None,
                                    result |-> None])
    /\ UNCHANGED <<clock, store, tasks, dispatched, queries, templates_cache,
                   random_calls, commands>>

\* The response arrives at call c, which with a status other than 200
\* would empty the cache.
response_status_clears(c, status) ==
    /\ c \in Indexes(calls)
    /\ calls[c].pc = "get"
    /\ IF status # 200
       THEN /\ calls' = [calls EXCEPT ![c].pc = "done",
                                      ![c].status = Some(status),
                                      ![c].result = Some(<<>>)]
            /\ templates_cache' = Some(<<>>)
       ELSE /\ calls' = [calls EXCEPT ![c].pc = "json",
                                      ![c].status = Some(status)]
            /\ UNCHANGED templates_cache
    /\ UNCHANGED <<clock, store, tasks, dispatched, queries,
                   random_calls, commands>>

\* The response arrives at call c: with a status other than 200 the call
\* returns [], with 200 it goes on to response.json().
response_status(c, status) ==
    /\ c \in Indexes(calls)
    /\ calls[c].pc = "get"
    /\ IF status # 200
       THEN calls' = [calls EXCEPT ![c].pc = "done",
                                   ![c].status = Some(status),
                                   ![c].result = Some(<<>>)]
       ELSE calls' = [calls EXCEPT ![c].pc = "json",
                                   ![c].status = Some(status)]
    /\ UNCHANGED <<clock, store, tasks, dispatched, queries, templates_cache,
                   random_calls, commands>>

\* response.json() returns templates to call c, which would add them to
\* the list in the cache.
response_json_extend(c, templates) ==
    /\ c \in Indexes(calls)
    /\ calls[c].pc = "json"
    /\ templates_cache' =
          IF templates_cache = None THEN Some(templates)
          ELSE Some(Val(templates_cache) \o templates)
    /\ calls' = [calls EXCEPT ![c].pc = "done", ![c].result = Some(templates)]
    /\ UNCHANGED <<clock, store, tasks, dispatched, queries,
                   random_calls, commands>>

\* response.json() returns templates to call c, which caches and returns
\* them.
response_json(c, templates) ==
    /\ c \in Indexes(calls)
    /\ calls[c].pc = "json"
    /\ templates_cache' = Some(templates)
    /\ calls' = [calls EXCEPT ![c].pc = "done", ![c].result = Some(templates)]
    /\ UNCHANGED <<clock, store, tasks, dispatched, queries,
                   random_calls, commands>>

\* The subreddits of a get_random_meme call, and the memes that the meme
\* service may answer with, by title.
Subreddits == {None, Some("memes")}
Memes == {"meme1"}

\* A call of get_random_meme(subreddit) up to session.get; the subreddit
\* is part of the url only.
call_get_random_meme(subreddit) ==
    /\ Len(random_calls) < MaxRandomCalls
    /\ random_calls' = Append(random_calls, [pc |-> "get",
                                             status |-> None,
                                             result |-> None])
    /\ UNCHANGED <<clock, store, tasks, dispatched, queries, templates_cache,
                   calls, commands>>

\* The response arrives at call c of get_random_meme: with a status other
\* than 200 the call returns None, with 200 it goes on to response.json().
\* result is the value returned, once the call has returned.
random_response_status(c, status) ==
    /\ c \in Indexes(random_calls)
    /\ random_calls[c].pc = "get"
    /\ IF status # 200
       THEN random_calls' = [random_calls EXCEPT ![c].pc = "done",
                                                 ![c].status = Some(status),
                                                 ![c].result = Some(None)]
       ELSE random_calls' = [random_calls EXCEPT ![c].pc = "json",
                                                 ![c].status = Some(status)]
    /\ UNCHANGED <<clock, store, tasks, dispatched, queries, templates_cache,
                   calls, commands>>

\* response.json() returns meme_data to call c of get_random_meme, which
\* returns it.
random_response_json(c, meme_data) ==
    /\ c \in Indexes(random_calls)
    /\ random_calls[c].pc = "json"
    /\ random_calls' = [random_calls EXCEPT ![c].pc = "done",
                                            ![c].result = Some(Some(meme_data))]
    /\ UNCHANGED <<clock, store, tasks, dispatched, queries, templates_cache,
                   calls, commands>>

(***************************************************************************)
(* config.py and main.py: the /leaderboard command                         *)
(***************************************************************************)

RECURSIVE split(_, _)
\* str.split(sep): the pieces of text between the separators.
split(text, sep) ==
    IF \E i \in 1 .. Len(text) : text[i] = sep
    THEN LET i == CHOOSE k \in 1 .. Len(text) :
                      text[k] = sep /\ \A j \in 1 .. (k - 1) : text[j] # sep
         IN <<SubSeq(text, 1, i - 1)>>
            \o split(SubSeq(text, i + 1, Len(text)), sep)
    ELSE <<text>>

RECURSIVE strip(_)
\* str.strip(): text less its leading and trailing spaces.
strip(text) ==
    IF text # <<>> /\ Head(text) = " " THEN strip(Tail(text))
    ELSE IF text # <<>> /\ text[Len(text)] = " "
    THEN strip(SubSeq(text, 1, Len(text) - 1))
    ELSE text

\* Settings.admin_ids: the stripped, non-empty pieces of admin_user_ids.
admin_ids(admin_user_ids) ==
    IF admin_user_ids = <<>> THEN {}
    ELSE LET uids == split(admin_user_ids, ",")
         IN {strip(uids[i]) :
                i \in {k \in 1 .. Len(uids) : strip(uids[k]) # <<>>}}

DecimalDigits == {Digits[d] : d \in 1 .. Len(Digits)}
NonZeroDigits == DecimalDigits \ {"0"}

digit(c) == (CHOOSE d \in 1 .. Len(Digits) : Digits[d] = c) - 1

AllDigits(text) == \A i \in 1 .. Len(text) : text[i] \in DecimalDigits

RECURSIVE number(_)
\* The value of a sequence of decimal digits.
number(digits) ==
    IF digits = <<>> THEN 0
    ELSE 10 * number(SubSeq(digits, 1, Len(digits) - 1))
         + digit(digits[Len(digits)])

\* int(text): Some(n), and None where Python raises ValueError.
int(text) ==
    LET s == strip(text)
        signed == s # <<>> /\ Head(s) \in {"+", "-"}
        digits == IF signed THEN Tail(s) ELSE s
    IN IF digits = <<>> \/ ~AllDigits(digits) THEN None
       ELSE Some(IF signed /\ Head(s) = "-" THEN 0 - number(digits)
                 ELSE number(digits))

is_leap(year) == year % 4 = 0 /\ (year % 100 # 0 \/ year % 400 = 0)

days_in_month(year, month) ==
    IF month = 2 THEN (IF is_leap(year) THEN 29 ELSE 28)
    ELSE IF month \in {4, 6, 9, 11} THEN 30
    ELSE 31

\* The directive %d matched at position i, 3[01]|[12]\d|0[1-9]|[1-9]| [1-9]:
\* the index after the first alternative that matches, or 0.
DayEnd(text, i) ==
    LET second(cls) == i + 1 <= Len(text) /\ text[i + 1] \in cls
    IN IF At(text, i, "3") /\ second({"0", "1"}) THEN i + 2
       ELSE IF i <= Len(text) /\ text[i] \in {"1", "2"} /\ second(DecimalDigits)
       THEN i + 2
       ELSE IF At(text, i, "0") /\ second(NonZeroDigits) THEN i + 2
       ELSE IF i <= Len(text) /\ text[i] \in NonZeroDigits THEN i + 1
       ELSE IF At(text, i, " ") /\ second(NonZeroDigits) THEN i + 2
       ELSE 0

\* The directive %m, 1[0-2]|0[1-9]|[1-9], matched at position 6 and followed
\* by "-" and a day: the index of that "-", or 0.
MonthEnd(text) ==
    LET two == \/ At(text, 6, "1") /\ 7 <= Len(text) /\ text[7] \in {"0", "1", "2"}
               \/ At(text, 6, "0") /\ 7 <= Len(text) /\ text[7] \in NonZeroDigits
        one == 6 <= Len(text) /\ text[6] \in NonZeroDigits
        rest(e) == At(text, e, "-") /\ DayEnd(text, e + 1) # 0
    IN IF two /\ rest(8) THEN 8 ELSE IF one /\ rest(7) THEN 7 ELSE 0

\* datetime.strptime(text, "%Y-%m-%d"): Some(<<year, month, day>>), and None
\* where it raises ValueError: the text does not match the format's pattern
\* (\d\d\d\d)-(1[0-2]|0[1-9]|[1-9])-(3[01]|[12]\d|0[1-9]|[1-9]| [1-9]),
\* text remains after the match, or the date is none of the calendar.
strptime(text) ==
    IF Len(text) < 5 \/ ~AllDigits(SubSeq(text, 1, 4)) \/ text[5] # "-"
       \/ MonthEnd(text) = 0
    THEN None
    ELSE LET m == MonthEnd(text)
             d == DayEnd(text, m + 1)
             year == number(SubSeq(text, 1, 4))
             month == number(SubSeq(text, 6, m - 1))
             day == number(strip(SubSeq(text, m + 1, d - 1)))
         IN IF d # Len(text) + 1 THEN None
            ELSE IF year < 1 \/ day > days_in_month(year, month) THEN None
            ELSE Some(<<year, month, day>>)

\* The truth value of an optional string argument.
truthy(arg) == arg # None /\ Val(arg) # <<>>

\* The texts of the replies (the first less its backquotes).
NeedGuildId == "Please provide a guild_id when using this command in DMs."
ServerOnly == "This command can only be used in a server."
InvalidDate == "Invalid date format. Please use YYYY-MM-DD."
NoData == "No activity data found"
Embed == "embed"

\* The branches on the interaction's guild with no test of is_admin.
target_guild_id_any_user(guild, is_admin, guild_id) ==
    IF guild # None
    THEN [to |-> "dates", value |-> str(Val(guild))]
    ELSE IF truthy(guild_id)
    THEN IF int(Val(guild_id)) = None
         THEN [to |-> "raise", value |-> Val(guild_id)]
         ELSE [to |-> "dates", value |-> Val(guild_id)]
    ELSE [to |-> "send_message", value |-> NeedGuildId]

\* The branches on the interaction's guild: the guild to query, the message
\* of a rejection, or the ValueError of int(guild_id).
target_guild_id(guild, is_admin, guild_id) ==
    IF guild # None
    THEN [to |-> "dates", value |-> str(Val(guild))]
    ELSE IF is_admin /\ truthy(guild_id)
    THEN IF int(Val(guild_id)) = None
         THEN [to |-> "raise", value |-> Val(guild_id)]
         ELSE [to |-> "dates", value |-> Val(guild_id)]
    ELSE IF is_admin
    THEN [to |-> "send_message", value |-> NeedGuildId]
    ELSE [to |-> "send_message", value |-> ServerOnly]

\* start_dt and end_dt of the arguments, and whether strptime raised.
date_range(period, start_date, end_date) ==
    IF truthy(start_date) \/ truthy(end_date)
    THEN LET start == IF truthy(start_date) THEN strptime(Val(start_date))
                      ELSE None
             end == IF truthy(end_date) THEN strptime(Val(end_date))
                    ELSE None
         IN IF \/ truthy(start_date) /\ start = None
               \/ truthy(end_date) /\ end = None
            THEN [raised |-> TRUE, start_dt |-> None, end_dt |-> None]
            ELSE [raised |-> FALSE,
                  start_dt |->
                      IF start = None THEN None
                      ELSE Some([date |-> Val(start), time |-> <<0, 0, 0>>]),
                  end_dt |->
                      IF end = None THEN None
                      ELSE Some([date |-> Val(end), time |-> <<23, 59, 59>>])]
    ELSE LET selected_period == IF period = None THEN "7d" ELSE Val(period)
         IN [raised |-> FALSE,
             start_dt |->
                 IF selected_period = "1d" THEN Some([days_before_now |-> 1])
                 ELSE IF selected_period = "7d"
                 THEN Some([days_before_now |-> 7])
                 ELSE IF selected_period = "30d"
                 THEN Some([days_before_now |-> 30])
                 ELSE None,
             end_dt |-> None]

\* No /leaderboard has been invoked.  An invocation keeps its arguments, where
\* it stands (pc), the locals of the handler, the message it is sending, the
\* calls of get_guild_leaderboards it made and the number of completed
\* response.send_message, response.defer and followup.send calls.
NoInteraction ==
    [pc |-> "idle", guild |-> None, user |-> 0, admin_user_ids |-> <<>>,
     period |-> None, start_date |-> None, end_date |-> None,
     guild_id |-> None, target_guild_id |-> None, start_dt |-> None,
     end_dt |-> None, message |-> None, queried |-> <<>>, responses |-> 0,
     deferrals |-> 0, followups |-> 0]

\* The handler up to its first await, or to the exception it raises.
leaderboard_command(guild, user, admin_user_ids, period, start_date, end_date, guild_id) ==
    /\ interaction.pc = "idle"
    /\ LET user_id == str(user)
           is_admin == user_id \in admin_ids(admin_user_ids)
           target == target_guild_id(guild, is_admin, guild_id)
           dates == date_range(period, start_date, end_date)
           invoked == [interaction EXCEPT
                          !.guild = guild, !.user = user,
                          !.admin_user_ids = admin_user_ids,
                          !.period = period, !.start_date = start_date,
                          !.end_date = end_date, !.guild_id = guild_id]
       IN interaction' =
            IF target.to = "raise" THEN [invoked EXCEPT !.pc = "raised"]
            ELSE IF target.to = "send_message"
            THEN [invoked EXCEPT !.pc = "send_message",
                                 !.message = Some(target.value)]
            ELSE IF dates.raised
            THEN [invoked EXCEPT !.pc = "send_message",
                                 !.target_guild_id = Some(target.value),
                                 !.message = Some(InvalidDate)]
            ELSE [invoked EXCEPT !.pc = "defer",
                                 !.target_guild_id = Some(target.value),
                                 !.start_dt = dates.start_dt,
                                 !.end_dt = dates.end_dt]
    /\ UNCHANGED <<clock, store, tasks, dispatched, queries, meme>>

\* await interaction.response.send_message(...), and the return after it.
response_send_message ==
    /\ interaction.pc = "send_message"
    /\ interaction' = [interaction EXCEPT !.pc = "returned",
                                          !.responses = @ + 1]
    /\ UNCHANGED <<clock, store, tasks, dispatched, queries, meme>>

\* await interaction.response.defer(), and the call of get_guild_leaderboards.
response_defer ==
    /\ interaction.pc = "defer"
    /\ interaction' =
          [interaction EXCEPT
              !.pc = "get_guild_leaderboards",
              !.deferrals = @ + 1,
              !.queried = Append(@, [guild_id |-> Val(interaction.target_guild_id),
                                     start_date |-> interaction.start_dt,
                                     end_date |-> interaction.end_dt])]
    /\ UNCHANGED <<clock, store, tasks, dispatched, queries, meme>>

\* What get_guild_leaderboards returns to the handler: no entry at all, and
\* entries in two of the four lists.
BoardResults ==
    { [voice_time |-> <<>>, messages |-> <<>>, emojis |-> <<>>,
       reactions |-> <<>>],
      [voice_time |-> << <<"u1", "n1", 90>> >>,
       messages |-> << <<"u1", "n1", 2>>, <<"u2", "Unknown", 1>> >>,
       emojis |-> <<>>, reactions |-> <<>>] }

\* get_guild_leaderboards returns data: the handler tests has_data and builds
\* the follow-up it sends.
leaderboard_data(data) ==
    /\ interaction.pc = "get_guild_leaderboards"
    /\ LET has_data == \/ data.voice_time # <<>> \/ data.messages # <<>>
                       \/ data.emojis # <<>> \/ data.reactions # <<>>
       IN interaction' =
            [interaction EXCEPT !.pc = "followup_send",
                                !.message = IF has_data THEN Some(Embed)
                                            ELSE Some(NoData)]
    /\ UNCHANGED <<clock, store, tasks, dispatched, queries, meme>>

\* await interaction.followup.send(...), and the return after it.
followup_send ==
    /\ interaction.pc = "followup_send"
    /\ interaction' = [interaction EXCEPT !.pc = "returned",
                                          !.followups = @ + 1]
    /\ UNCHANGED <<clock, store, tasks, dispatched, queries, meme>>

(***************************************************************************)
(* main.py: the events and the handlers' state                             *)
(***************************************************************************)

Event(kind, user_id, guild, name, before, after, bot, channel_id, message_id, content, emoji) ==
    [kind |-> kind, user_id |-> user_id, guild |-> guild, name |-> name,
     before |-> before, after |-> after, bot |-> bot,
     channel_id |-> channel_id, message_id |-> message_id,
     content |-> content, emoji |-> emoji]

NoEvent ==
    Event("none", "u1", None, None, None, None, FALSE, "c1", "m1", <<>>, <<>>)

OptChannels == {None} \cup {Some(c) : c \in Channels}
OptGuilds == {None} \cup {Some(g) : g \in Guilds}
OptNames == {None} \cup {Some(n) : n \in DisplayNames}

\* The guild of an event of a member, and no guild (a direct message).
MemberGuilds(u) == {None} \cup {Some(g) : g \in {x \in Guilds : <<u, x>> \in Members}}

\* Voice state updates of a member: a join of c1, a leave of c1, a switch
\* from c1 to c2 and an update within c1 (a mute, say).
VoiceUpdates ==
    { <<None, Some("c1")>>, <<Some("c1"), None>>, <<Some("c1"), Some("c2")>>,
      <<Some("c1"), Some("c1")>> }

VoiceEvents ==
    {Event("voice", m[1], Some(m[2]), Some(n), ch[1], ch[2], FALSE, "c1", "m1", <<>>, <<>>) :
        m \in Members, n \in DisplayNames, ch \in VoiceUpdates}

\* The voice events of the voice specifications: one display name.
NamedVoiceEvents == {e \in VoiceEvents : e.name = Some("n1")}

Contents ==
    { <<>>,
      <<"U+1F44D", "U+1F44D", "w", "<", ":", "w", ":", "1", ">">> }

MessageEvents ==
    {e \in {Event("message", u, g, Some(n), None, None, bot, "c1", m, text, <<>>) :
                u \in Users, g \in OptGuilds, n \in DisplayNames,
                bot \in BOOLEAN, m \in MessageIds, text \in Contents} :
        e.guild \in MemberGuilds(e.user_id)}

ReactionEmojis == { <<"U+1F600">>, <<"<", ":", "w", ":", "1", ">">> }

ReactionAddEvents ==
    {e \in {Event("reaction_add", u, g, n, None, None, FALSE, "c1", m, <<>>, x) :
                u \in Users, g \in OptGuilds, n \in OptNames,
                m \in MessageIds, x \in ReactionEmojis} :
        e.guild \in MemberGuilds(e.user_id)}

\* discord.py gives no member with a reaction removal.
ReactionRemoveEvents ==
    {e \in {Event("reaction_remove", u, g, None, None, None, FALSE, "c1", m, <<>>, x) :
                u \in Users, g \in OptGuilds, m \in MessageIds,
                x \in ReactionEmojis} :
        e.guild \in MemberGuilds(e.user_id)}

\* A handler's state: where it stands (pc), the event it handles, the
\* timestamp in the database call it awaits (ts) and the locals of
\* end_voice_session (now, session, duration).
IdleTask ==
    [pc |-> "idle", ev |-> NoEvent, ts |-> 0, now |-> 0, session |-> None,
     duration |-> 0]

Idle(h) == tasks[h].pc = "idle"
AllIdle == \A h \in Handlers : Idle(h)

\* No query of the store has been made.
NoReply == [op |-> "none"]

\* The process after start-up: no handler runs, no query has been made and
\* the template cache is None.
Started ==
    /\ clock = 0
    /\ tasks = [h \in Handlers |-> IdleTask]
    /\ dispatched = 0
    /\ reply = NoReply
    /\ templates_cache = None
    /\ calls = <<>>
    /\ random_calls = <<>>
    /\ interaction = NoInteraction

Init ==
    /\ Started
    /\ users = <<>>
    /\ voice_sessions = <<>>
    /\ messages = <<>>
    /\ reactions = <<>>

\* Time passes, up to the specification's bound.
Tick(bound) ==
    /\ clock < bound
    /\ clock' = clock + 1
    /\ UNCHANGED <<store, tasks, dispatched, queries, meme, commands>>

\* The branch on_voice_state_update takes.
voice_transition(before, after) ==
    IF before = None /\ after # None THEN "join"
    ELSE IF before # None /\ after = None THEN "leave"
    ELSE IF before # None /\ after # None /\ Val(before) # Val(after)
         THEN "switch"
    ELSE "other"

\* The handler's local code calling start_voice_session: the document is
\* built, joined_at read from the clock, and insert_one awaited.
CallStart(t) == [t EXCEPT !.pc = "start_voice_session", !.ts = clock]

\* The handler's local code calling end_voice_session: now is read and
\* find_one awaited.
CallEnd(t) == [t EXCEPT !.pc = "find_one", !.now = clock]

\* on_voice_state_update up to its first await (upsert_user).
on_voice_state_update(h, ev) ==
    /\ Idle(h)
    /\ tasks' = [tasks EXCEPT ![h] =
                    [IdleTask EXCEPT !.pc = "upsert_user", !.ev = ev,
                                     !.ts = clock]]
    /\ dispatched' = dispatched + 1
    /\ UNCHANGED <<clock, store, queries, meme, commands>>

\* upsert_user: the update_one on users takes effect.
upsert_user(h) ==
    /\ tasks[h].pc = "upsert_user"
    /\ users' = users_update_one(users, tasks[h].ev.user_id,
                                 Val(tasks[h].ev.name), tasks[h].ts)
    /\ tasks' = [tasks EXCEPT ![h].pc = "upserted", ![h].ts = 0]
    /\ UNCHANGED <<clock, voice_sessions, messages, reactions,
                   dispatched, queries, meme, commands>>

\* on_voice_state_update after upsert_user returned: the branch.
voice_after_upsert(h) ==
    /\ tasks[h].pc = "upserted"
    /\ tasks[h].ev.kind = "voice"
    /\ LET tr == voice_transition(tasks[h].ev.before, tasks[h].ev.after)
           t == tasks[h]
       IN tasks' = [tasks EXCEPT ![h] =
                       IF tr = "join" THEN CallStart(t)
                       ELSE IF tr \in {"leave", "switch"} THEN CallEnd(t)
                       ELSE IdleTask]
    /\ UNCHANGED <<clock, store, dispatched, queries, meme, commands>>

\* end_voice_session: find_one takes effect.
end_voice_session_find(h) ==
    /\ tasks[h].pc = "find_one"
    /\ \E s \in find_one_session(voice_sessions, tasks[h].ev.user_id,
                                 Val(tasks[h].ev.guild)) :
          tasks' = [tasks EXCEPT ![h].pc = "found", ![h].session = s]
    /\ UNCHANGED <<clock, store, dispatched, queries, meme, commands>>

\* What the handler does when end_voice_session returns: a channel switch
\* goes on to start_voice_session (the record keeps the session that
\* end_voice_session found), a leave is finished.
AfterEnd(t) ==
    IF voice_transition(t.ev.before, t.ev.after) = "switch"
    THEN CallStart([t EXCEPT !.now = 0, !.duration = 0])
    ELSE IdleTask

\* `if session:` of end_voice_session.
session_found(session) == session # None

\* end_voice_session after find_one returned.
end_voice_session_found(h) ==
    /\ tasks[h].pc = "found"
    /\ LET t == tasks[h]
       IN tasks' = [tasks EXCEPT ![h] =
             IF session_found(t.session)
             THEN IF t.session = None
                  THEN [t EXCEPT !.pc = "error"]
                  ELSE [t EXCEPT !.pc = "update_one",
                           !.duration = session_duration(t.now,
                               voice_sessions[Val(t.session)].joined_at)]
             ELSE AfterEnd(t)]
    /\ UNCHANGED <<clock, store, dispatched, queries, meme, commands>>

\* end_voice_session: update_one takes effect; the handler goes on.
end_voice_session_update(h) ==
    /\ tasks[h].pc = "update_one"
    /\ voice_sessions' = close_session(voice_sessions, Val(tasks[h].session),
                                       tasks[h].now, tasks[h].duration)
    /\ LET t == tasks[h]
       IN tasks' = [tasks EXCEPT ![h] =
             IF voice_transition(t.ev.before, t.ev.after) = "switch"
             THEN [t EXCEPT !.pc = "updated"]
             ELSE IdleTask]
    /\ UNCHANGED <<clock, users, messages, reactions, dispatched,
                   queries, meme, commands>>

\* A channel switch after end_voice_session returned from its update.
voice_after_end(h) ==
    /\ tasks[h].pc = "updated"
    /\ tasks' = [tasks EXCEPT ![h] = AfterEnd(@)]
    /\ UNCHANGED <<clock, store, dispatched, queries, meme, commands>>

\* The channel as it would be were the session opened for before.channel.
start_channel_before(ev) ==
    IF ev.before # None THEN Val(ev.before) ELSE Val(ev.after)

\* The channel a new session is opened for.
start_channel(ev) == Val(ev.after)

\* start_voice_session as it would be with a check for an open session
\* before the insert.
start_voice_session_if_none(h) ==
    /\ tasks[h].pc = "start_voice_session"
    /\ voice_sessions' =
          IF open_sessions(voice_sessions, tasks[h].ev.user_id,
                           Val(tasks[h].ev.guild)) = {}
          THEN Append(voice_sessions,
                  new_voice_session(tasks[h].ev.user_id,
                                    Val(tasks[h].ev.guild),
                                    start_channel(tasks[h].ev),
                                    ChannelName(start_channel(tasks[h].ev)),
                                    tasks[h].ts))
          ELSE voice_sessions
    /\ tasks' = [tasks EXCEPT ![h] = IdleTask]
    /\ UNCHANGED <<clock, users, messages, reactions, dispatched,
                   queries, meme, commands>>

\* start_voice_session: insert_one takes effect, and the handler returns.
start_voice_session(h) ==
    /\ tasks[h].pc = "start_voice_session"
    /\ voice_sessions' = Append(voice_sessions,
          new_voice_session(tasks[h].ev.user_id, Val(tasks[h].ev.guild),
                            start_channel(tasks[h].ev),
                            ChannelName(start_channel(tasks[h].ev)),
                            tasks[h].ts))
    /\ tasks' = [tasks EXCEPT ![h] = IdleTask]
    /\ UNCHANGED <<clock, users, messages, reactions, dispatched,
                   queries, meme, commands>>

\* on_message up to its first await.
on_message(h, ev) ==
    /\ Idle(h)
    /\ tasks' = [tasks EXCEPT ![h] =
          IF ev.bot \/ ev.guild = None
          THEN IdleTask
          ELSE [IdleTask EXCEPT !.pc = "upsert_user", !.ev = ev,
                                !.ts = clock]]
    /\ dispatched' = dispatched + 1
    /\ UNCHANGED <<clock, store, queries, meme, commands>>

\* on_message after upsert_user returned: record_message is called.
message_after_upsert(h) ==
    /\ tasks[h].pc = "upserted"
    /\ tasks[h].ev.kind = "message"
    /\ tasks' = [tasks EXCEPT ![h].pc = "record_message", ![h].ts = clock]
    /\ UNCHANGED <<clock, store, dispatched, queries, meme, commands>>

\* record_message: insert_one takes effect.  What process_commands does
\* afterwards is outside the model.
record_message(h) ==
    /\ tasks[h].pc = "record_message"
    /\ messages' = Append(messages,
          new_message(tasks[h].ev.user_id, Val(tasks[h].ev.guild),
                      tasks[h].ev.channel_id, tasks[h].ev.message_id,
                      extract_emojis(tasks[h].ev.content), tasks[h].ts))
    /\ tasks' = [tasks EXCEPT ![h] = IdleTask]
    /\ UNCHANGED <<clock, users, voice_sessions, reactions,
                   dispatched, queries, meme, commands>>

\* on_raw_reaction_add as it would be without its upsert_user.
reaction_add_never_upserts(ev) == FALSE

\* Whether on_raw_reaction_add upserts the user: `if payload.member:`.
reaction_add_upserts(ev) == ev.name # None

\* on_raw_reaction_add up to its first await.
on_raw_reaction_add(h, ev) ==
    /\ Idle(h)
    /\ tasks' = [tasks EXCEPT ![h] =
          IF ev.guild = None THEN IdleTask
          ELSE IF reaction_add_upserts(ev)
               THEN [IdleTask EXCEPT !.pc = "upsert_user", !.ev = ev,
                                     !.ts = clock]
               ELSE [IdleTask EXCEPT !.pc = "record_reaction", !.ev = ev,
                                     !.ts = clock]]
    /\ dispatched' = dispatched + 1
    /\ UNCHANGED <<clock, store, queries, meme, commands>>

\* on_raw_reaction_add after upsert_user returned.
reaction_after_upsert(h) ==
    /\ tasks[h].pc = "upserted"
    /\ tasks[h].ev.kind = "reaction_add"
    /\ tasks' = [tasks EXCEPT ![h].pc = "record_reaction", ![h].ts = clock]
    /\ UNCHANGED <<clock, store, dispatched, queries, meme, commands>>

\* on_raw_reaction_remove up to its first await.
on_raw_reaction_remove(h, ev) ==
    /\ Idle(h)
    /\ tasks' = [tasks EXCEPT ![h] =
          IF ev.guild = None THEN IdleTask
          ELSE [IdleTask EXCEPT !.pc = "record_reaction", !.ev = ev,
                                !.ts = clock]]
    /\ dispatched' = dispatched + 1
    /\ UNCHANGED <<clock, store, queries, meme, commands>>

\* The action string the handler passes to record_reaction.
reaction_action(ev) == IF ev.kind = "reaction_add" THEN "add" ELSE "remove"

\* record_reaction as it would be were a remove paired with an add: the
\* remove takes the matching add out of the collection.
record_reaction_paired(h) ==
    /\ tasks[h].pc = "record_reaction"
    /\ LET ev == tasks[h].ev
           doc == new_reaction(ev.user_id, Val(ev.guild), ev.channel_id,
                               ev.message_id, ev.emoji, reaction_action(ev),
                               tasks[h].ts)
           same == {i \in Indexes(reactions) :
                      /\ reactions[i].user_id = ev.user_id
                      /\ reactions[i].message_id = ev.message_id
                      /\ reactions[i].emoji = ev.emoji
                      /\ reactions[i].action = "add"}
       IN reactions' =
            IF reaction_action(ev) = "remove" /\ same # {}
            THEN LET k == CHOOSE i \in same : \A m \in same : m <= i
                 IN [i \in 1 .. (Len(reactions) - 1) |->
                        IF i < k THEN reactions[i] ELSE reactions[i + 1]]
            ELSE Append(reactions, doc)
    /\ tasks' = [tasks EXCEPT ![h] = IdleTask]
    /\ UNCHANGED <<clock, users, voice_sessions, messages,
                   dispatched, queries, meme, commands>>

\* record_reaction: insert_one takes effect.
record_reaction(h) ==
    /\ tasks[h].pc = "record_reaction"
    /\ reactions' = Append(reactions,
          new_reaction(tasks[h].ev.user_id, Val(tasks[h].ev.guild),
                       tasks[h].ev.channel_id, tasks[h].ev.message_id,
                       tasks[h].ev.emoji, reaction_action(tasks[h].ev),
                       tasks[h].ts))
    /\ tasks' = [tasks EXCEPT ![h] = IdleTask]
    /\ UNCHANGED <<clock, users, voice_sessions, messages,
                   dispatched, queries, meme, commands>>

(***************************************************************************)
(* Specifications                                                          *)
(***************************************************************************)

\* The task slot a newly dispatched event gets.
FreeSlot(h) == Idle(h) /\ \A k \in Handlers : k < h => ~Idle(k)

\* The steps of a running voice handler.
VoiceStep(h) ==
    \/ upsert_user(h)
    \/ voice_after_upsert(h)
    \/ end_voice_session_find(h)
    \/ end_voice_session_found(h)
    \/ end_voice_session_update(h)
    \/ voice_after_end(h)
    \/ start_voice_session(h)

\* Voice events handled one at a time: an event is dispatched when no
\* handler is running.
NextVoiceSeq ==
    \/ Tick(MaxClock)
    \/ \E h \in Handlers, ev \in NamedVoiceEvents :
          /\ AllIdle /\ FreeSlot(h) /\ dispatched < MaxEvents
          /\ on_voice_state_update(h, ev)
    \/ \E h \in Handlers : VoiceStep(h)

SpecVoiceSeq == Init /\ [][NextVoiceSeq]_vars

\* Voice events handled concurrently: the handlers interleave at their
\* awaits.
NextVoice ==
    \/ Tick(MaxClock)
    \/ \E h \in Handlers, ev \in NamedVoiceEvents :
          /\ FreeSlot(h) /\ dispatched < MaxEvents
          /\ on_voice_state_update(h, ev)
    \/ \E h \in Handlers : VoiceStep(h)

SpecVoice == Init /\ [][NextVoice]_vars

\* Events of every kind, handled one at a time.
Next ==
    \/ Tick(MaxStoreClock)
    \/ \E h \in Handlers :
          /\ AllIdle /\ FreeSlot(h) /\ dispatched < MaxStoreEvents
          /\ \/ \E ev \in VoiceEvents : on_voice_state_update(h, ev)
             \/ \E ev \in MessageEvents : on_message(h, ev)
             \/ \E ev \in ReactionAddEvents : on_raw_reaction_add(h, ev)
             \/ \E ev \in ReactionRemoveEvents : on_raw_reaction_remove(h, ev)
    \/ \E h \in Handlers :
          \/ VoiceStep(h)
          \/ message_after_upsert(h)
          \/ record_message(h)
          \/ reaction_after_upsert(h)
          \/ record_reaction(h)

Spec == Init /\ [][Next]_vars

\* The message events of the concurrent specification: one display name,
\* one message id and no content.
PlainMessageEvents ==
    {e \in MessageEvents :
        e.name = Some("n1") /\ e.message_id = "m1" /\ e.content = <<>>}

\* Voice state updates and messages handled concurrently: the handlers
\* interleave at their awaits.
NextVoiceMessage ==
    \/ Tick(MaxStoreClock)
    \/ \E h \in Handlers :
          /\ FreeSlot(h) /\ dispatched < MaxStoreEvents
          /\ \/ \E ev \in NamedVoiceEvents : on_voice_state_update(h, ev)
             \/ \E ev \in PlainMessageEvents : on_message(h, ev)
    \/ \E h \in Handlers :
          \/ VoiceStep(h)
          \/ message_after_upsert(h)
          \/ record_message(h)

SpecVoiceMessage == Init /\ [][NextVoiceMessage]_vars

\* The sequences of at most n elements of S.
SeqsUpTo(S, n) == UNION {[1 .. k -> S] : k \in 0 .. n}

\* A session that start_voice_session opened and, with a duration, that
\* end_voice_session closed duration seconds later (earlier, when the
\* duration is negative).
StoredSession(user_id, guild_id, channel_id, duration) ==
    LET joined_at == IF duration # None /\ Val(duration) < 0
                     THEN -Val(duration) * TicksPerSec ELSE 0
    IN [user_id |-> user_id, guild_id |-> guild_id, channel_id |-> channel_id,
        channel_name |-> ChannelName(channel_id), joined_at |-> joined_at,
        left_at |-> IF duration = None THEN None
                    ELSE Some(joined_at + Val(duration) * TicksPerSec),
        duration_seconds |-> duration]

\* The durations of the stored sessions: none (open), negative (the
\* end_voice_session that read its clock before the session was inserted),
\* zero and positive.
StoredDurations == {None} \cup {Some(d) : d \in {-1, 0, 1, 2}}

StoredSessions ==
    {StoredSession(m[1], m[2], c, d) :
        m \in Members, c \in Channels, d \in StoredDurations}

\* get_voice_stats on a collection of at most MaxSessions sessions.
InitVoiceStats ==
    /\ Started
    /\ users = <<>>
    /\ voice_sessions \in SeqsUpTo(StoredSessions, MaxSessions)
    /\ messages = <<>>
    /\ reactions = <<>>

NextVoiceStats ==
    \E user_id \in Users, guild_id \in Guilds :
        get_voice_stats(user_id, guild_id)

SpecVoiceStats == InitVoiceStats /\ [][NextVoiceStats]_vars

\* An emoji string: a run of n emoji code points.
EmojiRun(n) == [i \in 1 .. n |-> "U+1F600"]

\* The emoji lists of the stored messages: none, one emoji, one emoji
\* twice and another once.
StoredEmojiLists ==
    { <<>>, <<EmojiRun(1)>>, <<EmojiRun(1), EmojiRun(1), EmojiRun(2)>> }

\* A list of more distinct emojis than to_list asks for, the first of them
\* twice.
ManyEmojis ==
    <<EmojiRun(1)>> \o [k \in 1 .. (ToListLength + MaxSpareEmojis) |-> EmojiRun(k)]

StoredMessages ==
    {new_message(m[1], m[2], "c1", "m1", emojis, 0) :
        m \in Members, emojis \in StoredEmojiLists}
    \cup {new_message("u1", "g1", "c1", "m1", ManyEmojis, 0)}

\* get_message_stats on a collection of at most MaxMessages messages.
InitMessageStats ==
    /\ Started
    /\ users = <<>>
    /\ voice_sessions = <<>>
    /\ messages \in SeqsUpTo(StoredMessages, MaxMessages)
    /\ reactions = <<>>

NextMessageStats ==
    \E user_id \in Users, guild_id \in Guilds :
        get_message_stats(user_id, guild_id)

SpecMessageStats == InitMessageStats /\ [][NextMessageStats]_vars

StoredReactions ==
    {new_reaction(m[1], m[2], "c1", "m1", e, a, 0) :
        m \in Members, e \in ReactionEmojis, a \in {"add", "remove"}}

\* get_reaction_stats on a collection of at most MaxReactions reactions.
InitReactionStats ==
    /\ Started
    /\ users = <<>>
    /\ voice_sessions = <<>>
    /\ messages = <<>>
    /\ reactions \in SeqsUpTo(StoredReactions, MaxReactions)

NextReactionStats ==
    \E user_id \in Users, guild_id \in Guilds :
        get_reaction_stats(user_id, guild_id)

SpecReactionStats == InitReactionStats /\ [][NextReactionStats]_vars

\* An activity of a member at a time: a voice join, a message or a
\* reaction.
Activities ==
    [kind : {"voice", "message", "reaction"}, member : Members,
     at : 0 .. MaxStamp]

\* The documents the activities acts of one kind left, in their order.
DocumentsOf(acts, kind) ==
    LET sel == SelectSeq(acts, LAMBDA a : a.kind = kind)
    IN [i \in 1 .. Len(sel) |->
          LET u == sel[i].member[1]
              g == sel[i].member[2]
              at == sel[i].at
          IN IF kind = "voice"
             THEN new_voice_session(u, g, "c1", ChannelName("c1"), at)
             ELSE IF kind = "message"
                  THEN new_message(u, g, "c1", "m1", <<>>, at)
                  ELSE new_reaction(u, g, "c1", "m1", <<"U+1F600">>, "add", at)]

\* get_first_activity on the collections that at most MaxActivities
\* activities left.
InitFirstActivity ==
    /\ Started
    /\ users = <<>>
    /\ \E acts \in SeqsUpTo(Activities, MaxActivities) :
          /\ voice_sessions = DocumentsOf(acts, "voice")
          /\ messages = DocumentsOf(acts, "message")
          /\ reactions = DocumentsOf(acts, "reaction")

NextFirstActivity ==
    \E user_id \in Users, guild_id \in Guilds :
        get_first_activity(user_id, guild_id)

SpecFirstActivity == InitFirstActivity /\ [][NextFirstActivity]_vars

\* The guild members of the leaderboard specification: u1 and u2 and four
\* more, one more than a leaderboard has entries.
BoardUsers == <<"u1", "u2", "u3", "u4", "u5", "u6">>
UsernameOf(u) == IF u \in {"u1", "u3", "u5"} THEN "n1" ELSE "n2"

\* The dates of the leaderboard specification; the date of a query's
\* start_date and end_date is the middle one.
BoardDates == {20, 21, 22}
QueryDates == {None, Some(21)}

\* A session that end_voice_session closed at left_at after duration
\* seconds.
ClosedSession(user_id, guild_id, duration, left_at) ==
    [user_id |-> user_id, guild_id |-> guild_id, channel_id |-> "c1",
     channel_name |-> ChannelName("c1"),
     joined_at |-> left_at - duration * TicksPerSec,
     left_at |-> Some(left_at), duration_seconds |-> Some(duration)]

\* The documents of u3 .. u6 in g1: the k-th of them has one session of k
\* seconds, k messages with k emojis in the first, and k added reactions,
\* so that no two of them have the same metric.
RankOf == <<1, 2, 2, 3, 3, 3, 4, 4, 4, 4>>
FirstOfRank == {1, 2, 4, 7}
BackgroundSessions ==
    [k \in 1 .. 4 |-> ClosedSession(BoardUsers[k + 2], "g1", k, 21)]
BackgroundMessages ==
    [i \in 1 .. 10 |->
        new_message(BoardUsers[RankOf[i] + 2], "g1", "c1", "m1",
                    IF i \in FirstOfRank
                    THEN [j \in 1 .. RankOf[i] |-> EmojiRun(1)] ELSE <<>>,
                    21)]
BackgroundReactions ==
    [i \in 1 .. 10 |->
        new_reaction(BoardUsers[RankOf[i] + 2], "g1", "c1", "m1",
                     EmojiRun(1), "add", 21)]

\* The documents u1 may have left in g1: a session closed after 5 seconds,
\* a message without emojis and an added reaction at each date, an open
\* session, a message with six emojis and a removed reaction; and one of
\* each kind in g2.  In messages and in reactions u1 may have the metric
\* of another user.
BoardDocs ==
    {[kind |-> "voice", doc |-> ClosedSession("u1", "g1", 5, t)] :
        t \in BoardDates}
    \cup {[kind |-> "voice",
           doc |-> new_voice_session("u1", "g1", "c1", ChannelName("c1"), 21)],
          [kind |-> "voice", doc |-> ClosedSession("u1", "g2", 5, 21)]}
    \cup {[kind |-> "message",
           doc |-> new_message("u1", "g1", "c1", "m1", <<>>, t)] :
            t \in BoardDates}
    \cup {[kind |-> "message",
           doc |-> new_message("u1", g, "c1", "m1",
                               [j \in 1 .. 6 |-> EmojiRun(1)], 21)] :
            g \in Guilds}
    \cup {[kind |-> "reaction",
           doc |-> new_reaction("u1", "g1", "c1", "m1", EmojiRun(1), "add", t)] :
            t \in BoardDates}
    \cup {[kind |-> "reaction",
           doc |-> new_reaction("u1", "g1", "c1", "m1", EmojiRun(1),
                                "remove", 21)]}
    \cup {[kind |-> "reaction",
           doc |-> new_reaction("u1", "g2", "c1", "m1", EmojiRun(1), "add", 21)]}

\* The documents of one kind among the set docs, one after the other.
DocsOfKind(docs, kind) ==
    LET sel == {d.doc : d \in {x \in docs : x.kind = kind}}
    IN CHOOSE list \in [1 .. Cardinality(sel) -> sel] :
          \A d \in sel : \E k \in 1 .. Cardinality(sel) : list[k] = d

\* The User documents of the members but those of missing.
UsersBut(missing) ==
    LET known == SelectSeq(BoardUsers, LAMBDA u : u \notin missing)
    IN [i \in 1 .. Len(known) |->
          [_id |-> known[i], username |-> UsernameOf(known[i]),
           updated_at |-> 0]]

\* get_guild_leaderboards on the documents of u3 .. u6, a message with five
\* emojis of u2 and at most MaxBoardDocs documents of u1; u1 and u6 have a
\* User document or have none.
InitLeaderboards ==
    /\ Started
    /\ \E docs \in {d \in SUBSET BoardDocs : Cardinality(d) <= MaxBoardDocs},
          missing \in {{}, {"u1", "u6"}} :
          /\ users = UsersBut(missing)
          /\ voice_sessions = BackgroundSessions \o DocsOfKind(docs, "voice")
          /\ messages =
                BackgroundMessages
                \o <<new_message("u2", "g1", "c1", "m1",
                                 [j \in 1 .. 5 |-> EmojiRun(1)], 21)>>
                \o DocsOfKind(docs, "message")
          /\ reactions = BackgroundReactions \o DocsOfKind(docs, "reaction")

NextLeaderboards ==
    \E guild_id \in Guilds, start_date \in QueryDates, end_date \in QueryDates :
        get_guild_leaderboards(guild_id, start_date, end_date)

SpecLeaderboards == InitLeaderboards /\ [][NextLeaderboards]_vars

\* The pieces of a text: the emoji code points, a letter, a space, a custom
\* and an animated custom emoji, and the characters of these on their own.
Pieces ==
    {<<c>> : c \in EmojiChars \cup {"w", " ", "<", ":", "1", ">"}}
    \cup {<<"<", ":", "w", ":", "1", ">">>,
          <<"<", "a", ":", "a", "_", ":", "1", "1", ">">>}

RECURSIVE Concat(_)
\* The pieces of a sequence joined.
Concat(pieces) ==
    IF pieces = <<>> THEN <<>> ELSE Head(pieces) \o Concat(Tail(pieces))

\* The texts of at most MaxPieces pieces.
Texts == {Concat(pieces) : pieces \in SeqsUpTo(Pieces, MaxPieces)}

\* extract_emojis on a text, any of them; the function has no state, so
\* one call is made.
NextExtractEmojis ==
    reply = NoReply /\ \E text \in Texts : call_extract_emojis(text)

SpecExtractEmojis == Init /\ [][NextExtractEmojis]_vars

\* The durations formatted: every number of seconds up to MaxSmallDuration
\* and, up to MaxHours hours, the hours with 0, 1 and 59 minutes and
\* seconds.
Durations ==
    (0 .. MaxSmallDuration)
    \cup {h * 3600 + m * 60 + sec :
            h \in 0 .. MaxHours, m \in {0, 1, 59}, sec \in {0, 1, 59}}

\* format_duration on a duration; the function has no state, so one call is
\* made.
NextFormatDuration ==
    reply = NoReply /\ \E seconds \in Durations : call_format_duration(seconds)

SpecFormatDuration == Init /\ [][NextFormatDuration]_vars

\* The characters of a meme text: those that are replaced, those that a
\* replacement puts in, and a letter.
MemeChars == {"a", "q", "_", "-", " ", "?", "#", "/", "\"", "\n", "~", "'"}

\* encode_meme_text on a text of at most MaxTextLen characters; the function
\* has no state, so one call is made.
NextEncodeMemeText ==
    reply = NoReply
    /\ \E text \in SeqsUpTo(MemeChars, MaxTextLen) : call_encode_meme_text(text)

SpecEncodeMemeText == Init /\ [][NextEncodeMemeText]_vars

\* The invocations of /leaderboard: in the guild 7 or in a direct message, by
\* the users 1 and 2, with an empty allowlist or the allowlist "1, 3,", every
\* period, a guild_id that is absent, empty, "8" or "x", and dates that are
\* absent or one of "2024-02-29", "2023-02-29", "2024-2-9", "2024-13-01",
\* "2024/02/29", "24-02-29", "2024-02-29x" and "".
Invocations ==
    LET y24 == <<"2", "0", "2", "4">>
        y23 == <<"2", "0", "2", "3">>
        feb == <<"0", "2">>
        d29 == <<"2", "9">>
        text(year, sep, month, day) == year \o sep \o month \o sep \o day
        texts == { text(y24, <<"-">>, feb, d29),
                   text(y23, <<"-">>, feb, d29),
                   text(y24, <<"-">>, <<"2">>, <<"9">>),
                   text(y24, <<"-">>, <<"1", "3">>, <<"0", "1">>),
                   text(y24, <<"/">>, feb, d29),
                   text(<<"2", "4">>, <<"-">>, feb, d29),
                   text(y24, <<"-">>, feb, d29 \o <<"x">>),
                   <<>> }
        dates == {None} \cup {Some(t) : t \in texts}
    IN [guild : {None, Some(7)},
        user : {1, 2},
        admin_user_ids : { <<>>, <<"1", ",", " ", "3", ",">> },
        period : {None} \cup {Some(p) : p \in {"1d", "7d", "30d", "all"}},
        start_date : dates,
        end_date : dates,
        guild_id : {None, Some(<<>>), Some(<<"8">>), Some(<<"x">>)}]

\* One invocation of /leaderboard, run to its end.
NextLeaderboardCommand ==
    \/ /\ interaction.pc = "idle"
       /\ \E i \in Invocations :
             leaderboard_command(i.guild, i.user, i.admin_user_ids, i.period,
                                 i.start_date, i.end_date, i.guild_id)
    \/ response_send_message
    \/ response_defer
    \/ \E data \in BoardResults : leaderboard_data(data)
    \/ followup_send

SpecLeaderboardCommand == Init /\ [][NextLeaderboardCommand]_vars

\* At most MaxCalls calls of get_meme_templates, forced or not, and
\* MaxRandomCalls calls of get_random_meme, that may overlap, with every
\* response of the two services.
NextMeme ==
    \/ \E force_refresh \in BOOLEAN : call_get_meme_templates(force_refresh)
    \/ \E c \in 1 .. MaxCalls, status \in Statuses : response_status(c, status)
    \/ \E c \in 1 .. MaxCalls, templates \in TemplateLists :
          response_json(c, templates)
    \/ \E subreddit \in Subreddits : call_get_random_meme(subreddit)
    \/ \E c \in 1 .. MaxRandomCalls, status \in Statuses :
          random_response_status(c, status)
    \/ \E c \in 1 .. MaxRandomCalls, meme_data \in Memes :
          random_response_json(c, meme_data)

SpecMeme == Init /\ [][NextMeme]_vars

(***************************************************************************)
(* Properties                                                              *)
(***************************************************************************)

\* The sessions of (user_id, guild_id) with left_at = null.
OpenOf(coll, user_id, guild_id) ==
    {i \in Indexes(coll) : /\ coll[i].user_id = user_id
                           /\ coll[i].guild_id = guild_id
                           /\ coll[i].left_at = None}

TaskUser(t) == t.ev.user_id
TaskGuild(t) == Val(t.ev.guild)
TaskOpen(coll, t) == OpenOf(coll, TaskUser(t), TaskGuild(t))

\* Handler h takes the step that leaves program point pc.
StepsFrom(h, pc) == tasks[h].pc = pc /\ tasks'[h] # tasks[h]

\* C1: with voice events handled one at a time, every (user, guild) pair has
\* at most one session with left_at = null.
C1_OpenSessionInvariant ==
    \A u \in Users, g \in Guilds :
        Cardinality(OpenOf(voice_sessions, u, g)) <= 1

C3_EndWithoutOpenIsNoOp ==
    [][\A h \in Handlers :
        (/\ tasks[h].pc \in {"find_one", "found"}
         /\ TaskOpen(voice_sessions, tasks[h]) = {}
         /\ tasks'[h] # tasks[h])
        => /\ store' = store
           /\ tasks[h].pc = "find_one"
                => tasks'[h].pc = "found" /\ tasks'[h].session = None
           /\ tasks[h].pc = "found"
                => tasks'[h].pc \in {"idle", "start_voice_session"}
      ]_vars

\* C3 witness: end_voice_session found no open session although the pair
\* has a (closed) session, and has returned from its lookup.
C3_Witness ==
    \E h \in Handlers :
        /\ tasks[h].pc = "found"
        /\ tasks[h].session = None
        /\ \E i \in Indexes(voice_sessions) :
              /\ voice_sessions[i].user_id = TaskUser(tasks[h])
              /\ voice_sessions[i].guild_id = TaskGuild(tasks[h])
              /\ voice_sessions[i].left_at # None

\* C4: a closed session (left_at set) is terminal: no step changes its
\* left_at or its duration_seconds.
C4_ClosedIsTerminal ==
    [][\A i \in Indexes(voice_sessions) :
        voice_sessions[i].left_at # None
        => /\ i \in Indexes(voice_sessions')
           /\ voice_sessions'[i].left_at = voice_sessions[i].left_at
           /\ voice_sessions'[i].duration_seconds
                 = voice_sessions[i].duration_seconds
      ]_vars

\* C5: every session whose duration_seconds is set has duration_seconds >= 0.
C5_DurationNonNegative ==
    \A i \in Indexes(voice_sessions) :
        voice_sessions[i].duration_seconds # None
        => Val(voice_sessions[i].duration_seconds) >= 0

\* C6: a channel switch handled alone for a pair with one open session
\* first closes that session and then opens a new one: its update leaves the
\* pair without an open session, and its insert leaves the pair with exactly
\* one open session, the new one, whose channel_id and channel_name are those
\* of the after channel, the old session still being closed.
C6_SwitchClosesThenOpens ==
    [][\A h \in Handlers :
        voice_transition(tasks[h].ev.before, tasks[h].ev.after) = "switch"
        => /\ (/\ StepsFrom(h, "find_one")
               /\ Cardinality(TaskOpen(voice_sessions, tasks[h])) = 1)
              => /\ tasks'[h].pc = "found"
                 /\ {Val(tasks'[h].session)} = TaskOpen(voice_sessions, tasks[h])
           /\ (StepsFrom(h, "found") /\ tasks[h].session # None)
              => tasks'[h].pc = "update_one"
           /\ (/\ StepsFrom(h, "update_one")
               /\ TaskOpen(voice_sessions, tasks[h]) = {Val(tasks[h].session)})
              => /\ TaskOpen(voice_sessions', tasks[h]) = {}
                 /\ voice_sessions'[Val(tasks[h].session)].left_at # None
                 /\ Len(voice_sessions') = Len(voice_sessions)
                 /\ tasks'[h].pc = "updated"
           /\ StepsFrom(h, "updated")
              => tasks'[h].pc = "start_voice_session" /\ store' = store
           /\ (/\ StepsFrom(h, "start_voice_session")
               /\ tasks[h].session # None
               /\ TaskOpen(voice_sessions, tasks[h]) = {})
              => LET n == Len(voice_sessions')
                 IN /\ tasks'[h].pc = "idle"
                    /\ n = Len(voice_sessions) + 1
                    /\ TaskOpen(voice_sessions', tasks[h]) = {n}
                    /\ voice_sessions'[n].channel_id = Val(tasks[h].ev.after)
                    /\ voice_sessions'[n].channel_name
                          = ChannelName(Val(tasks[h].ev.after))
                    /\ voice_sessions'[Val(tasks[h].session)].left_at # None
      ]_vars

\* C6 witness: after a switch to c2 the pair's only sessions are the old
\* one, closed, in c1 and the new one, open, in c2.
C6_Witness ==
    /\ AllIdle
    /\ Len(voice_sessions) = 2
    /\ voice_sessions[1].user_id = voice_sessions[2].user_id
    /\ voice_sessions[1].guild_id = voice_sessions[2].guild_id
    /\ voice_sessions[1].channel_id = "c1"
    /\ voice_sessions[1].left_at # None
    /\ voice_sessions[2].channel_id = "c2"
    /\ voice_sessions[2].channel_name = "Music"
    /\ voice_sessions[2].left_at = None
    /\ voice_sessions[2].joined_at >= Val(voice_sessions[1].left_at)

\* C7: start_voice_session inserts its session whatever the pair's sessions
\* are and whichever other handlers are running: the pair's open sessions
\* after the insert are those before it and the new one.  So handlers of one
\* pair that interleave leave it with more than one open session (the
\* witness).
C7_StartInsertsUnconditionally ==
    [][\A h \in Handlers :
        StepsFrom(h, "start_voice_session")
        => /\ Len(voice_sessions') = Len(voice_sessions) + 1
           /\ TaskOpen(voice_sessions', tasks[h])
                 = TaskOpen(voice_sessions, tasks[h]) \cup {Len(voice_sessions')}
      ]_vars

\* C7 witness: two channel switches of one pair interleaved: the session in
\* c1 is closed and the pair has two open sessions in c2, which only a
\* switch opens.
C7_Witness ==
    /\ Len(voice_sessions) = 3
    /\ \A i \in {2, 3} :
          /\ voice_sessions[i].user_id = voice_sessions[1].user_id
          /\ voice_sessions[i].guild_id = voice_sessions[1].guild_id
          /\ voice_sessions[i].channel_id = "c2"
          /\ voice_sessions[i].left_at = None
    /\ voice_sessions[1].channel_id = "c1"
    /\ voice_sessions[1].left_at # None

\* The _id values of the users collection.
UserIds(coll) == {coll[i]._id : i \in Indexes(coll)}
HasUser(coll, user_id) == user_id \in UserIds(coll)

\* Document i of coll is in coll2, the same entity.
SameUser(coll, coll2, i) ==
    i \in Indexes(coll2) /\ coll2[i]._id = coll[i]._id
SameSession(coll, coll2, i) ==
    /\ i \in Indexes(coll2)
    /\ coll2[i].user_id = coll[i].user_id
    /\ coll2[i].guild_id = coll[i].guild_id
    /\ coll2[i].channel_id = coll[i].channel_id
    /\ coll2[i].joined_at = coll[i].joined_at
SameDocument(coll, coll2, i) == i \in Indexes(coll2) /\ coll2[i] = coll[i]

\* C8: no entity is ever deleted: a document of users, voice_sessions,
\* messages or reactions is in the collection after every step.
C8_NoEntityDeleted ==
    [][/\ \A i \in Indexes(users) : SameUser(users, users', i)
       /\ \A i \in Indexes(voice_sessions) :
             SameSession(voice_sessions, voice_sessions', i)
       /\ \A i \in Indexes(messages) : SameDocument(messages, messages', i)
       /\ \A i \in Indexes(reactions) : SameDocument(reactions, reactions', i)
      ]_vars

\* C8 witness: a session that was closed by a later event of its user,
\* whose User document that event updated: both documents are still there.
C8_Witness ==
    /\ AllIdle
    /\ Len(users) = 1
    /\ Len(voice_sessions) = 1
    /\ voice_sessions[1].left_at # None
    /\ voice_sessions[1].user_id = users[1]._id
    /\ users[1].updated_at > voice_sessions[1].joined_at

\* C9: upsert_user(id, username) leaves users with exactly one document per
\* id upserted so far, the ids being those before and id; the document of id
\* has the username of this, the most recent, call and every other document
\* is unchanged.
C9_UpsertLastWriteWins ==
    [][\A h \in Handlers :
        StepsFrom(h, "upsert_user")
        => LET id == tasks[h].ev.user_id
               name == Val(tasks[h].ev.name)
           IN /\ UserIds(users') = UserIds(users) \cup {id}
              /\ Cardinality(UserIds(users')) = Len(users')
              /\ \A i \in Indexes(users') :
                    users'[i]._id = id
                    => /\ users'[i].username = name
                       /\ users'[i].updated_at = tasks[h].ts
              /\ \A i \in Indexes(users) :
                    users[i]._id # id => users'[i] = users[i]
      ]_vars

\* C9 witness: a second event of a user has upserted the user's document:
\* there is one document for the user and its username is the second
\* event's.
C9_Witness ==
    \E h \in Handlers :
        /\ tasks[h].pc = "upserted"
        /\ dispatched = 2
        /\ Len(messages) = 1
        /\ messages[1].user_id = tasks[h].ev.user_id
        /\ Len(users) = 1
        /\ users[1]._id = tasks[h].ev.user_id
        /\ users[1].username = "n2"
        /\ tasks[h].ev.name = Some("n2")
        /\ users[1].updated_at > messages[1].created_at

\* C10, as the spec states it: every user_id of a voice session, a message
\* or a reaction has a User document.
C10_EveryActiveUserHasUser ==
    /\ \A i \in Indexes(voice_sessions) :
          HasUser(users, voice_sessions[i].user_id)
    /\ \A i \in Indexes(messages) : HasUser(users, messages[i].user_id)
    /\ \A i \in Indexes(reactions) : HasUser(users, reactions[i].user_id)

\* The handlers that upsert the acting user: voice state updates, messages
\* and reaction adds that carry the member.
Upserts(ev) ==
    \/ ev.kind \in {"voice", "message"}
    \/ ev.kind = "reaction_add" /\ ev.name # None

\* C10, amended: a voice state update, a message and a reaction add that
\* carries the member upsert the acting user before anything else, so the
\* user has a User document from then on and so has every user_id of a voice
\* session or a message; a reaction add without member and a reaction remove
\* never write to users.
C10_UpsertBeforeWrite ==
    [][/\ \A h \in Handlers :
            /\ (Upserts(tasks'[h].ev) /\ tasks'[h].pc # "upsert_user")
                => HasUser(users', tasks'[h].ev.user_id)
            /\ (/\ tasks[h].ev.kind \in {"reaction_add", "reaction_remove"}
                /\ ~Upserts(tasks[h].ev)
                /\ tasks'[h] # tasks[h])
                => users' = users
            /\ (StepsFrom(h, "idle") /\ tasks'[h].pc # "idle")
                => tasks'[h].pc = IF Upserts(tasks'[h].ev)
                                  THEN "upsert_user" ELSE "record_reaction"
       /\ \A i \in Indexes(voice_sessions') :
             HasUser(users', voice_sessions'[i].user_id)
       /\ \A i \in Indexes(messages') : HasUser(users', messages'[i].user_id)
      ]_vars

\* C10 witness: a reaction add of a user with a User document, and a
\* reaction of a user without one.
C10_Witness ==
    /\ \E i \in Indexes(reactions) :
          /\ reactions[i].action = "add"
          /\ HasUser(users, reactions[i].user_id)
    /\ \E i \in Indexes(reactions) : ~HasUser(users, reactions[i].user_id)

\* The collection after is the collection before with one document added.
OneAdded(coll, coll2) ==
    /\ Len(coll2) = Len(coll) + 1
    /\ \A i \in Indexes(coll) : coll2[i] = coll[i]

\* C11: record_message and record_reaction are pure inserts: each adds
\* exactly one document, which carries the fields of the call (the emojis in
\* their order, the action as given), and changes no other document of any
\* collection, whatever documents there are already: nothing is
\* deduplicated, and a remove is not paired with an add.
C11_RecordsArePureInserts ==
    [][\A h \in Handlers :
        /\ StepsFrom(h, "record_message")
            => LET n == Len(messages')
                   ev == tasks[h].ev
               IN /\ OneAdded(messages, messages')
                  /\ messages'[n].user_id = ev.user_id
                  /\ messages'[n].guild_id = Val(ev.guild)
                  /\ messages'[n].channel_id = ev.channel_id
                  /\ messages'[n].message_id = ev.message_id
                  /\ messages'[n].emojis = extract_emojis(ev.content)
                  /\ messages'[n].created_at = tasks[h].ts
                  /\ UNCHANGED <<users, voice_sessions, reactions>>
        /\ StepsFrom(h, "record_reaction")
            => LET n == Len(reactions')
                   ev == tasks[h].ev
               IN /\ OneAdded(reactions, reactions')
                  /\ reactions'[n].user_id = ev.user_id
                  /\ reactions'[n].guild_id = Val(ev.guild)
                  /\ reactions'[n].channel_id = ev.channel_id
                  /\ reactions'[n].message_id = ev.message_id
                  /\ reactions'[n].emoji = ev.emoji
                  /\ reactions'[n].action
                        = (IF ev.kind = "reaction_add" THEN "add" ELSE "remove")
                  /\ reactions'[n].created_at = tasks[h].ts
                  /\ UNCHANGED <<users, voice_sessions, messages>>
      ]_vars

\* C11 witness: an add and then a remove of one emoji on one message by one
\* user have left two reaction documents.
C11_Witness ==
    /\ AllIdle
    /\ Len(reactions) = 2
    /\ reactions[1].user_id = reactions[2].user_id
    /\ reactions[1].guild_id = reactions[2].guild_id
    /\ reactions[1].message_id = reactions[2].message_id
    /\ reactions[1].emoji = reactions[2].emoji
    /\ reactions[1].action = "add"
    /\ reactions[2].action = "remove"

\* The pair's sessions that were closed with a duration.
Completed(coll, user_id, guild_id) ==
    {i \in Indexes(coll) : /\ coll[i].user_id = user_id
                           /\ coll[i].guild_id = guild_id
                           /\ coll[i].duration_seconds # None}

RECURSIVE DurationUpTo(_, _, _)
\* The summed duration of the sessions of ids among the first n of coll.
DurationUpTo(coll, ids, n) ==
    IF n = 0 THEN 0
    ELSE DurationUpTo(coll, ids, n - 1)
            + (IF n \in ids THEN Val(coll[n].duration_seconds) ELSE 0)

\* The summed duration of the pair's completed sessions in channel name.
ChannelTime(coll, user_id, guild_id, name) ==
    DurationUpTo(coll, {i \in Completed(coll, user_id, guild_id) :
                            coll[i].channel_name = name}, Len(coll))

\* C12: get_voice_stats(user, guild) returns total_seconds = the sum of
\* duration_seconds and session_count = the number of the pair's sessions
\* with a duration (open sessions and other pairs' sessions count for
\* neither), and favorite_channel = a channel name of these sessions whose
\* summed duration is >= that of every other; with no completed session it
\* returns 0, 0 and null.
C12_VoiceStats ==
    reply.op = "get_voice_stats"
    => LET u == reply.user_id
           g == reply.guild_id
           done == Completed(voice_sessions, u, g)
           r == reply.result
       IN /\ r.total_seconds = DurationUpTo(voice_sessions, done,
                                            Len(voice_sessions))
          /\ r.session_count = Cardinality(done)
          /\ done = {} => /\ r.total_seconds = 0
                          /\ r.session_count = 0
                          /\ r.favorite_channel = None
          /\ done # {}
                => /\ r.favorite_channel # None
                   /\ \E i \in done :
                         voice_sessions[i].channel_name
                            = Val(r.favorite_channel)
                   /\ \A i \in done :
                         ChannelTime(voice_sessions, u, g,
                                     voice_sessions[i].channel_name)
                            <= ChannelTime(voice_sessions, u, g,
                                           Val(r.favorite_channel))

\* C12 witness: the pair has two completed sessions in one channel, a
\* longer single one in the other and the query returned the first channel,
\* whose sum is the greater.
C12_Witness ==
    /\ reply.op = "get_voice_stats"
    /\ Len(voice_sessions) = 3
    /\ \A i \in 1 .. 3 :
          /\ voice_sessions[i].user_id = reply.user_id
          /\ voice_sessions[i].guild_id = reply.guild_id
    /\ voice_sessions[1].channel_name = "General"
    /\ voice_sessions[1].duration_seconds = Some(1)
    /\ voice_sessions[2].channel_name = "Music"
    /\ voice_sessions[2].duration_seconds = Some(2)
    /\ voice_sessions[3].channel_name = "Music"
    /\ voice_sessions[3].duration_seconds = None
    /\ reply.result.total_seconds = 3
    /\ reply.result.session_count = 2
    /\ reply.result.favorite_channel = Some("Music")

RECURSIVE EmojisUpTo(_, _, _, _)
\* The number of emojis in the pair's messages among the first n of coll.
EmojisUpTo(coll, user_id, guild_id, n) ==
    IF n = 0 THEN 0
    ELSE EmojisUpTo(coll, user_id, guild_id, n - 1)
            + (IF coll[n].user_id = user_id /\ coll[n].guild_id = guild_id
               THEN Len(coll[n].emojis) ELSE 0)

\* The occurrences of emoji e in the pair's messages.
Occurrences(coll, user_id, guild_id, e) ==
    {x \in Indexes(coll) \X (1 .. ToListLength + MaxSpareEmojis + 1) :
        /\ coll[x[1]].user_id = user_id
        /\ coll[x[1]].guild_id = guild_id
        /\ x[2] <= Len(coll[x[1]].emojis)
        /\ coll[x[1]].emojis[x[2]] = e}

\* The emojis of the pair's messages.
EmojisOf(coll, user_id, guild_id) ==
    UNION {{coll[i].emojis[j] : j \in 1 .. Len(coll[i].emojis)} :
              i \in {k \in Indexes(coll) : /\ coll[k].user_id = user_id
                                            /\ coll[k].guild_id = guild_id}}

\* C13: get_message_stats(user, guild) returns message_count = the number
\* of the pair's messages, total_emojis = the number of emoji occurrences in
\* all of them, however many distinct emojis there are, and top_emoji and
\* top_emoji_count = an emoji with the greatest number of occurrences and
\* that number (null and 0 when there is no emoji).
C13_MessageStats ==
    reply.op = "get_message_stats"
    => LET u == reply.user_id
           g == reply.guild_id
           r == reply.result
           emojis == EmojisOf(messages, u, g)
       IN /\ r.message_count
                = Cardinality({i \in Indexes(messages) :
                                 /\ messages[i].user_id = u
                                 /\ messages[i].guild_id = g})
          /\ r.total_emojis = EmojisUpTo(messages, u, g, Len(messages))
          /\ emojis = {} => r.top_emoji = None /\ r.top_emoji_count = 0
          /\ emojis # {}
                => /\ r.top_emoji # None
                   /\ Val(r.top_emoji) \in emojis
                   /\ r.top_emoji_count
                         = Cardinality(Occurrences(messages, u, g,
                                                   Val(r.top_emoji)))
                   /\ \A e \in emojis :
                         Cardinality(Occurrences(messages, u, g, e))
                            <= r.top_emoji_count

\* The pair's reactions with an action and, in AddsOf, an emoji.
ReactionsOf(coll, user_id, guild_id, action) ==
    {i \in Indexes(coll) : /\ coll[i].user_id = user_id
                           /\ coll[i].guild_id = guild_id
                           /\ coll[i].action = action}
AddsOf(coll, user_id, guild_id, e) ==
    {i \in ReactionsOf(coll, user_id, guild_id, "add") : coll[i].emoji = e}

\* C14: get_reaction_stats(user, guild) returns add_count and remove_count
\* = the numbers of the pair's reactions with action "add" and "remove", and
\* top_reaction and top_reaction_count = an emoji with the greatest number
\* of "add" reactions of the pair and that number: the removes count for
\* neither.  Without an add, top_reaction is null and its count 0, and
\* without any reaction the result is 0, 0, null, 0.
C14_ReactionStats ==
    reply.op = "get_reaction_stats"
    => LET u == reply.user_id
           g == reply.guild_id
           r == reply.result
           adds == ReactionsOf(reactions, u, g, "add")
       IN /\ r.add_count = Cardinality(adds)
          /\ r.remove_count
                = Cardinality(ReactionsOf(reactions, u, g, "remove"))
          /\ adds = {} => r.top_reaction = None /\ r.top_reaction_count = 0
          /\ adds # {}
                => /\ r.top_reaction # None
                   /\ r.top_reaction_count
                         = Cardinality(AddsOf(reactions, u, g,
                                              Val(r.top_reaction)))
                   /\ r.top_reaction_count > 0
                   /\ \A i \in adds :
                         Cardinality(AddsOf(reactions, u, g, reactions[i].emoji))
                            <= r.top_reaction_count

\* C14 witness: the pair removed one emoji twice and added another once:
\* the added one is the top reaction, with count 1.
C14_Witness ==
    /\ reply.op = "get_reaction_stats"
    /\ Len(reactions) = 3
    /\ \A i \in 1 .. 3 :
          /\ reactions[i].user_id = reply.user_id
          /\ reactions[i].guild_id = reply.guild_id
    /\ reactions[1].action = "remove"
    /\ reactions[2].action = "remove"
    /\ reactions[3].action = "add"
    /\ reactions[1].emoji = reactions[2].emoji
    /\ reactions[3].emoji # reactions[1].emoji
    /\ reply.result.add_count = 1
    /\ reply.result.remove_count = 2
    /\ reply.result.top_reaction = Some(reactions[3].emoji)
    /\ reply.result.top_reaction_count = 1

\* The timestamps of the pair's recorded activities.
ActivityTimes(user_id, guild_id) ==
    {voice_sessions[i].joined_at :
        i \in {k \in Indexes(voice_sessions) :
                  /\ voice_sessions[k].user_id = user_id
                  /\ voice_sessions[k].guild_id = guild_id}}
    \cup {messages[i].created_at :
             i \in {k \in Indexes(messages) :
                       /\ messages[k].user_id = user_id
                       /\ messages[k].guild_id = guild_id}}
    \cup {reactions[i].created_at :
             i \in {k \in Indexes(reactions) :
                       /\ reactions[k].user_id = user_id
                       /\ reactions[k].guild_id = guild_id}}

\* C15: get_first_activity(user, guild) returns the least of the pair's
\* voice joined_at, message created_at and reaction created_at timestamps:
\* it is one of them and <= each of them; it returns None exactly when the
\* pair has no document in any of the three collections.
C15_FirstActivity ==
    reply.op = "get_first_activity"
    => LET times == ActivityTimes(reply.user_id, reply.guild_id)
       IN /\ (reply.result = None) <=> (times = {})
          /\ reply.result # None
                => /\ Val(reply.result) \in times
                   /\ \A t \in times : Val(reply.result) <= t

\* C15 witness: the pair has a voice session, a message and a reaction, the
\* message earlier than the other two, and its time was returned.
C15_Witness ==
    /\ reply.op = "get_first_activity"
    /\ Len(voice_sessions) = 1 /\ Len(messages) = 1 /\ Len(reactions) = 1
    /\ voice_sessions[1].user_id = reply.user_id
    /\ voice_sessions[1].guild_id = reply.guild_id
    /\ messages[1].user_id = reply.user_id
    /\ messages[1].guild_id = reply.guild_id
    /\ reactions[1].user_id = reply.user_id
    /\ reactions[1].guild_id = reply.guild_id
    /\ messages[1].created_at < voice_sessions[1].joined_at
    /\ messages[1].created_at < reactions[1].created_at
    /\ reply.result = Some(messages[1].created_at)

\* Whether timestamp t is within the date range of the leaderboard query
\* replied to, both ends included, a side that was not given unbounded.
InRange(t) ==
    /\ reply.start_date # None => Val(reply.start_date) <= t
    /\ reply.end_date # None => t <= Val(reply.end_date)

\* Whether the query replied to was given a date range.
Ranged == reply.start_date # None \/ reply.end_date # None

\* Whether a session, a message or a reaction is of the guild and within
\* the date range of the query replied to.
SessionInScope(d) ==
    /\ d.guild_id = reply.guild_id
    /\ Ranged => d.left_at # None /\ InRange(Val(d.left_at))
CreatedInScope(d) ==
    /\ d.guild_id = reply.guild_id
    /\ InRange(d.created_at)

\* The in-scope documents a metric is about: completed sessions, messages,
\* added reactions.
ScopedSessions ==
    {i \in Indexes(voice_sessions) :
        /\ SessionInScope(voice_sessions[i])
        /\ voice_sessions[i].duration_seconds # None}
ScopedMessages ==
    {i \in Indexes(messages) : CreatedInScope(messages[i])}
ScopedAdds ==
    {i \in Indexes(reactions) :
        CreatedInScope(reactions[i]) /\ reactions[i].action = "add"}

RECURSIVE EmojiCountUpTo(_, _, _)
\* The number of emojis in the messages of ids among the first n of coll.
EmojiCountUpTo(coll, ids, n) ==
    IF n = 0 THEN 0
    ELSE EmojiCountUpTo(coll, ids, n - 1)
            + (IF n \in ids THEN Len(coll[n].emojis) ELSE 0)

\* The reference metrics of a user over the in-scope documents.
RefVoiceTime(u) ==
    DurationUpTo(voice_sessions,
                 {i \in ScopedSessions : voice_sessions[i].user_id = u},
                 Len(voice_sessions))
RefMessages(u) ==
    Cardinality({i \in ScopedMessages : messages[i].user_id = u})
RefEmojis(u) ==
    EmojiCountUpTo(messages, {i \in ScopedMessages : messages[i].user_id = u},
                   Len(messages))
RefReactions(u) ==
    Cardinality({i \in ScopedAdds : reactions[i].user_id = u})

\* The four lists of the reply, each with the users that have something to
\* list and their reference metric.
Boards ==
    LET voice_users == {voice_sessions[i].user_id : i \in ScopedSessions}
        message_users == {messages[i].user_id : i \in ScopedMessages}
        emoji_users ==
            {messages[i].user_id :
                i \in {k \in ScopedMessages : Len(messages[k].emojis) > 0}}
        reaction_users == {reactions[i].user_id : i \in ScopedAdds}
    IN {[name |-> "voice_time", list |-> reply.result.voice_time,
         candidates |-> voice_users,
         ref |-> {<<u, RefVoiceTime(u)>> : u \in voice_users}],
        [name |-> "messages", list |-> reply.result.messages,
         candidates |-> message_users,
         ref |-> {<<u, RefMessages(u)>> : u \in message_users}],
        [name |-> "emojis", list |-> reply.result.emojis,
         candidates |-> emoji_users,
         ref |-> {<<u, RefEmojis(u)>> : u \in emoji_users}],
        [name |-> "reactions", list |-> reply.result.reactions,
         candidates |-> reaction_users,
         ref |-> {<<u, RefReactions(u)>> : u \in reaction_users}]}

\* The users listed in a list of entries, and the least of two numbers.
Listed(list) == {list[i][1] : i \in 1 .. Len(list)}
Least(a, b) == IF a <= b THEN a ELSE b

\* The listed users of board b are those with the LeaderboardLimit largest
\* reference metrics: they are candidates, as many as the limit admits, and
\* no user left out has a larger metric than a listed one.
TopListed(b) ==
    /\ Listed(b.list) \subseteq b.candidates
    /\ Len(b.list) = Least(LeaderboardLimit, Cardinality(b.candidates))
    /\ \A x \in b.ref, y \in b.ref :
          x[1] \notin Listed(b.list) /\ y[1] \in Listed(b.list)
              => x[2] <= y[2]

\* C16 as stated: each of the four lists has at most 5 entries, they are
\* the users with the 5 largest metrics, and each entry's metric is greater
\* than the next entry's.
C16_StrictlyDescending ==
    reply.op = "get_guild_leaderboards"
    => \A b \in Boards :
          /\ Len(b.list) <= 5
          /\ TopListed(b)
          /\ \A i \in 1 .. Len(b.list) - 1 : b.list[i][3] > b.list[i + 1][3]

\* C16 amended: each of the four lists has at most 5 entries, they are the
\* users with the 5 largest metrics, and no entry's metric is less than the
\* next entry's: users of equal metric are listed one after the other.
C16_TopFiveDescending ==
    reply.op = "get_guild_leaderboards"
    => \A b \in Boards :
          /\ Len(b.list) <= 5
          /\ TopListed(b)
          /\ \A i \in 1 .. Len(b.list) - 1 : b.list[i][3] >= b.list[i + 1][3]

\* C16 witness: six users have messages in scope, five are listed, the last
\* two listed have the same number of messages and so has the user left out.
C16_Witness ==
    /\ reply.op = "get_guild_leaderboards"
    /\ \E b \in Boards :
          /\ b.name = "messages"
          /\ Cardinality(b.candidates) = 6
          /\ Len(b.list) = 5
          /\ b.list[4][3] = b.list[5][3]
          /\ \E x \in b.ref : x[1] \notin Listed(b.list) /\ x[2] = b.list[5][3]

\* C17: get_guild_leaderboards(guild, start, end) counts only the documents
\* of the guild whose timestamp (left_at of a session, created_at of a
\* message or a reaction) t has start <= t <= end, a bound that is not given
\* not bounding: each list is a list the query returns, without a date
\* range, on the in-scope documents alone, so that no document of another
\* guild or out of the range affects it.
C17_GuildAndDateScope ==
    reply.op = "get_guild_leaderboards"
    => LET g == reply.guild_id
           s == SelectSeq(voice_sessions, SessionInScope)
           m == SelectSeq(messages, CreatedInScope)
           r == SelectSeq(reactions, CreatedInScope)
       IN /\ reply.result.voice_time
                \in voice_time_leaderboard(s, users, g, None, None)
          /\ reply.result.messages
                \in messages_leaderboard(m, users, g, None, None)
          /\ reply.result.emojis
                \in emojis_leaderboard(m, users, g, None, None)
          /\ reply.result.reactions
                \in reactions_leaderboard(r, users, g, None, None)

\* C17 witness: u1 has a message of the guild at the date that is both
\* start and end of the range and one after it; u1 is listed with one
\* message.
C17_Witness ==
    /\ reply.op = "get_guild_leaderboards"
    /\ reply.start_date = Some(21) /\ reply.end_date = Some(21)
    /\ \E i \in Indexes(messages), j \in Indexes(messages) :
          /\ messages[i].user_id = "u1" /\ messages[j].user_id = "u1"
          /\ messages[i].guild_id = reply.guild_id
          /\ messages[j].guild_id = reply.guild_id
          /\ messages[i].created_at = 21
          /\ messages[j].created_at = 22
    /\ \E k \in 1 .. Len(reply.result.messages) :
          /\ reply.result.messages[k][1] = "u1"
          /\ reply.result.messages[k][3] = 1

\* C18: the metric of each entry is the reference value of its user over
\* the in-scope documents (voice_time the summed duration_seconds of the
\* completed sessions, messages the number of messages, emojis the number
\* of emoji occurrences in the messages, reactions the number of reactions
\* with action "add"), and no user is listed twice in a list.
C18_MetricsAreReferenceValues ==
    reply.op = "get_guild_leaderboards"
    => \A b \in Boards :
          /\ \A i \in 1 .. Len(b.list) :
                <<b.list[i][1], b.list[i][3]>> \in b.ref
          /\ \A i \in 1 .. Len(b.list), j \in 1 .. Len(b.list) :
                b.list[i][1] = b.list[j][1] => i = j

\* C18 witness: u1 has an added and a removed reaction in scope and is
\* listed with one reaction.
C18_Witness ==
    /\ reply.op = "get_guild_leaderboards"
    /\ \E i \in Indexes(reactions), j \in Indexes(reactions) :
          /\ reactions[i].user_id = "u1" /\ reactions[j].user_id = "u1"
          /\ CreatedInScope(reactions[i]) /\ CreatedInScope(reactions[j])
          /\ reactions[i].action = "add"
          /\ reactions[j].action = "remove"
    /\ \E k \in 1 .. Len(reply.result.reactions) :
          /\ reply.result.reactions[k][1] = "u1"
          /\ reply.result.reactions[k][3] = 1

\* C19: the username of an entry whose user has no document in users is
\* "Unknown", never null; that of an entry whose user has one is the
\* document's username; and the list has all its entries all the same.
C19_UnknownUsername ==
    reply.op = "get_guild_leaderboards"
    => \A b \in Boards :
          /\ Len(b.list) = Least(LeaderboardLimit, Cardinality(b.candidates))
          /\ \A i \in 1 .. Len(b.list) :
                LET u == b.list[i][1]
                    docs == {k \in Indexes(users) : users[k]._id = u}
                IN /\ docs = {} => b.list[i][2] = Some("Unknown")
                   /\ docs # {}
                        => \E k \in docs : b.list[i][2] = Some(users[k].username)

\* C19 witness: the first of the messages list is u6, who has no document
\* in users and is listed as "Unknown"; the second is u5 with the username
\* of the document.
C19_Witness ==
    /\ reply.op = "get_guild_leaderboards"
    /\ \A k \in Indexes(users) : users[k]._id # "u6"
    /\ \E k \in Indexes(users) : users[k]._id = "u5"
    /\ Len(reply.result.messages) >= 2
    /\ reply.result.messages[1] = <<"u6", Some("Unknown"), 4>>
    /\ reply.result.messages[2] = <<"u5", Some(UsernameOf("u5")), 3>>

\* The rule of a call of get_meme_templates: it made an HTTP request exactly
\* when it found the cache empty or was forced, and a call that was not
\* forced and found the cache populated returned what it found.
FetchRule ==
    \A c \in Indexes(calls) :
        /\ calls[c].requested
              <=> (calls[c].seen = None \/ calls[c].force_refresh)
        /\ ~calls[c].force_refresh /\ calls[c].seen # None
              => /\ ~calls[c].requested
                 /\ calls[c].pc = "done"
                 /\ calls[c].result = calls[c].seen

\* C20: get_meme_templates makes an HTTP request if and only if the cache
\* is empty (never populated) or force_refresh is true; once a fetch has
\* succeeded, a call that is not forced returns the cached value without a
\* request; and a populated cache never becomes empty again, a fetch that
\* succeeds being what populates it.
C20_CacheLifecycle ==
    /\ [](FetchRule)
    /\ [][/\ templates_cache # None => templates_cache' # None
          /\ \A c \in Indexes(calls) :
                calls[c].pc = "json" /\ calls'[c].pc = "done"
                    => templates_cache' = calls'[c].result]_vars

\* C20 witness: the first call fetched an empty catalog with success; the
\* second, not forced, returned the cached empty list without a request;
\* the third, forced, made a request that failed, returned [] and left the
\* cache populated.
C20_Witness ==
    /\ Len(calls) = 3
    /\ calls[1].seen = None /\ calls[1].requested
    /\ calls[1].result = Some(<<>>)
    /\ calls[2].seen = Some(<<>>) /\ ~calls[2].force_refresh
    /\ ~calls[2].requested /\ calls[2].result = Some(<<>>)
    /\ calls[3].force_refresh /\ calls[3].requested
    /\ calls[3].seen = Some(<<>>)
    /\ calls[3].pc = "done" /\ calls[3].result = Some(<<>>)
    /\ templates_cache = Some(<<>>)

\* The lists that a fetch of get_meme_templates has read with success, and
\* the calls that wrote the cache.
Writers == {c \in Indexes(calls) : /\ calls[c].requested
                                   /\ calls[c].status = Some(200)
                                   /\ calls[c].pc = "done"}
FetchedLists == {calls[c].result : c \in Writers}

\* C21: under every interleaving of get_meme_templates calls, the cache is
\* empty or one whole list that a successful fetch returned, each write of
\* the cache puts there the list its writer fetched (the last writer wins),
\* and a call returns such a list or the empty sequence; calls that overlap
\* before the first write each make a request.
C21_CacheNeverCorrupted ==
    /\ [](/\ templates_cache \in {None} \cup FetchedLists
          /\ \A c \in Indexes(calls) :
                calls[c].pc = "done"
                    => calls[c].result \in {Some(<<>>)} \cup FetchedLists)
    /\ [][templates_cache' # templates_cache
            => \E c \in Indexes(calls) :
                  /\ calls[c].pc = "json" /\ calls'[c].pc = "done"
                  /\ c \in Writers'
                  /\ templates_cache' = calls'[c].result]_vars

\* C21 witness: two calls found the cache empty and both made a request;
\* the first read two templates and the second, finishing later, one: the
\* cache holds the one of the second, and a third call returned it.
C21_Witness ==
    /\ Len(calls) = 3
    /\ calls[1].seen = None /\ calls[2].seen = None
    /\ calls[1].requested /\ calls[2].requested
    /\ calls[1].result = Some(<<"drake", "fry">>)
    /\ calls[2].result = Some(<<"drake">>)
    /\ calls[3].seen = Some(<<"drake">>)
    /\ ~calls[3].requested
    /\ calls[3].result = Some(<<"drake">>)
    /\ templates_cache = Some(<<"drake">>)

\* C22: a response with a status other than 200 ends the call without an
\* exception: get_meme_templates returns the empty sequence and leaves the
\* cache as it was, empty or populated, and get_random_meme returns None.
C22_FailureIsSwallowed ==
    [][/\ \A c \in Indexes(calls) :
            /\ calls[c].pc = "get" /\ calls'[c].pc # "get"
            /\ calls'[c].status # Some(200)
            => /\ calls'[c].pc = "done"
               /\ calls'[c].result = Some(<<>>)
               /\ templates_cache' = templates_cache
       /\ \A c \in Indexes(random_calls) :
            /\ random_calls[c].pc = "get" /\ random_calls'[c].pc # "get"
            /\ random_calls'[c].status # Some(200)
            => /\ random_calls'[c].pc = "done"
               /\ random_calls'[c].result = Some(None)
               /\ templates_cache' = templates_cache]_vars

\* C22 witness: a call failed on an empty cache, which stayed empty; a
\* call then cached one template; a forced call failed with status 500,
\* returned [] and the cache still holds the template; and a
\* get_random_meme call that got status 500 returned None.
C22_Witness ==
    /\ Len(calls) = 3
    /\ calls[1].status = Some(500) /\ calls[1].result = Some(<<>>)
    /\ calls[2].seen = None
    /\ calls[2].status = Some(200) /\ calls[2].result = Some(<<"drake">>)
    /\ calls[3].force_refresh /\ calls[3].seen = Some(<<"drake">>)
    /\ calls[3].status = Some(500) /\ calls[3].pc = "done"
    /\ calls[3].result = Some(<<>>)
    /\ templates_cache = Some(<<"drake">>)
    /\ Len(random_calls) = 1
    /\ random_calls[1].status = Some(500)
    /\ random_calls[1].pc = "done"
    /\ random_calls[1].result = Some(None)

\* C28: in every reachable state, under every interleaving of the
\* on_voice_state_update and on_message handlers at their awaits, every
\* user_id of a voice session or of a message has a document in users, and
\* a handler that is past its upsert_user has one for its user.
C28_WritersHaveUser ==
    /\ \A i \in Indexes(voice_sessions) :
          HasUser(users, voice_sessions[i].user_id)
    /\ \A i \in Indexes(messages) : HasUser(users, messages[i].user_id)
    /\ \A h \in Handlers :
          tasks[h].pc \notin {"idle", "upsert_user"}
              => HasUser(users, tasks[h].ev.user_id)

\* C28 witness: a message of one user is recorded while the handler of a
\* voice state update of another user, who has no document in users yet,
\* awaits its upsert_user and a session of that user is not yet written.
C28_Witness ==
    /\ Len(messages) = 1
    /\ HasUser(users, messages[1].user_id)
    /\ \E h \in Handlers :
          /\ tasks[h].pc = "upsert_user"
          /\ tasks[h].ev.kind = "voice"
          /\ tasks[h].ev.user_id # messages[1].user_id
          /\ tasks[h].ts < messages[1].created_at
          /\ ~HasUser(users, tasks[h].ev.user_id)
          /\ \A i \in Indexes(voice_sessions) :
                voice_sessions[i].user_id # tasks[h].ev.user_id

\* The sessions that a step changes.
ChangedSessions ==
    {i \in Indexes(voice_sessions) : voice_sessions'[i] # voice_sessions[i]}

\* C30: a call of end_voice_session(user, guild) changes no document of
\* users, messages and reactions, adds and removes no session, and changes
\* at most one session: the one its find_one returned, an open session of
\* the pair than which none was joined later, of which only left_at and
\* duration_seconds change; every other session, of the pair or not, is
\* left as it is.
C30_EndVoiceSessionFrame ==
    [][\A h \in Handlers :
        /\ (StepsFrom(h, "find_one") \/ StepsFrom(h, "found")
              \/ StepsFrom(h, "update_one"))
            => /\ users' = users /\ messages' = messages
               /\ reactions' = reactions
               /\ Len(voice_sessions') = Len(voice_sessions)
               /\ Cardinality(ChangedSessions) <= 1
               /\ \A i \in ChangedSessions :
                     /\ tasks[h].pc = "update_one"
                     /\ tasks[h].session = Some(i)
                     /\ voice_sessions[i].user_id = tasks[h].ev.user_id
                     /\ voice_sessions[i].guild_id = Val(tasks[h].ev.guild)
                     /\ voice_sessions'[i]
                          = [voice_sessions[i] EXCEPT
                                !.left_at = voice_sessions'[i].left_at,
                                !.duration_seconds =
                                    voice_sessions'[i].duration_seconds]
        /\ (StepsFrom(h, "find_one") /\ tasks'[h].session # None)
            => LET i == Val(tasks'[h].session)
               IN /\ i \in TaskOpen(voice_sessions, tasks[h])
                  /\ \A m \in TaskOpen(voice_sessions, tasks[h]) :
                        voice_sessions[m].joined_at
                           <= voice_sessions[i].joined_at
      ]_vars

\* C30 witness: the pair had two open sessions; the call closed the one
\* joined later and the one joined earlier is still open, its fields and
\* the user's document as they were.
C30_Witness ==
    /\ AllIdle
    /\ Len(voice_sessions) = 2 /\ Len(users) = 1
    /\ voice_sessions[1].user_id = voice_sessions[2].user_id
    /\ voice_sessions[1].guild_id = voice_sessions[2].guild_id
    /\ voice_sessions[1].joined_at = 0
    /\ voice_sessions[1].left_at = None
    /\ voice_sessions[1].duration_seconds = None
    /\ voice_sessions[2].joined_at = 1
    /\ voice_sessions[2].left_at = Some(2)
    /\ voice_sessions[2].channel_id = "c1"
    /\ users[1]._id = voice_sessions[1].user_id

\* Whether s is a custom token <a?:name:digits>: "<", an "a" or not, ":",
\* one or more word characters, ":", one or more digits, ">".
IsCustomToken(s) ==
    \E a \in {1, 2}, k \in 1 .. Len(s) :
        /\ Len(s) >= a + 5
        /\ s[1] = "<" /\ (a = 2 => s[2] = "a") /\ s[a + 1] = ":"
        /\ a + 1 < k /\ k < Len(s) - 1
        /\ s[k] = ":" /\ s[Len(s)] = ">"
        /\ \A i \in (a + 2) .. (k - 1) : s[i] \in WordChars
        /\ \A i \in (k + 1) .. (Len(s) - 1) : s[i] \in DigitChars

\* The custom tokens of text from left to right: a token starts at a "<"
\* and ends at the next ">", so no two start at the same place.
CustomTokens(text) ==
    LET token(i) == CHOOSE j \in i .. Len(text) :
                        IsCustomToken(SubSeq(text, i, j))
        starts == SelectSeq([i \in 1 .. Len(text) |-> i],
                            LAMBDA i : \E j \in i .. Len(text) :
                                          IsCustomToken(SubSeq(text, i, j)))
    IN [n \in 1 .. Len(starts) |-> SubSeq(text, starts[n], token(starts[n]))]

\* The emoji code points of text from left to right, each on its own.
EmojiCodePoints(text) ==
    LET found == SelectSeq(text, LAMBDA c : c \in EmojiChars)
    IN [n \in 1 .. Len(found) |-> <<found[n]>>]

\* C27: extract_emojis(text) returns the custom tokens of text from left to
\* right followed by the Unicode matches from left to right, each Unicode
\* element of the result one code point of the emoji ranges; for a text
\* without a match, the empty text among them, it returns the empty
\* sequence.
C27_CustomThenCodePoints ==
    reply.op = "extract_emojis"
    => reply.result = CustomTokens(reply.text) \o EmojiCodePoints(reply.text)

\* What becomes of one character of a meme text.
Encoded(c) ==
    CASE c = "_" -> <<"_", "_">>
      [] c = "-" -> <<"-", "-">>
      [] c = " " -> <<"_">>
      [] c = "?" -> <<"~", "q">>
      [] c = "#" -> <<"~", "h">>
      [] c = "/" -> <<"~", "s">>
      [] c = "\"" -> <<"'", "'">>
      [] c = "\n" -> <<"~", "n">>
      [] OTHER -> <<c>>

RECURSIVE EncodedUpTo(_, _)
\* The first n characters of text, each encoded on its own.
EncodedUpTo(text, n) ==
    IF n = 0 THEN <<>> ELSE EncodedUpTo(text, n - 1) \o Encoded(text[n])

\* C25: encode_meme_text maps the empty text to "_" and any other text to
\* its characters encoded each on its own: no replacement matches a
\* character that an earlier one put in, so every _ and - of the text is
\* doubled and the underscore of a space is single.
C25_EncodeCharByChar ==
    reply.op = "encode_meme_text"
    => reply.result = IF reply.text = <<>> THEN <<"_">>
                      ELSE EncodedUpTo(reply.text, Len(reply.text))

\* C25 witness: an underscore, a space and a dash are encoded as two
\* underscores, one underscore and two dashes.
C25_Witness ==
    /\ reply.op = "encode_meme_text"
    /\ reply.text = <<"_", " ", "-">>
    /\ reply.result = <<"_", "_", "_", "-", "-">>

RECURSIVE DecimalValue(_)
\* The number that a sequence of decimal digits writes.
DecimalValue(d) ==
    IF d = <<>> THEN 0
    ELSE 10 * DecimalValue(SubSeq(d, 1, Len(d) - 1))
            + (CHOOSE v \in 0 .. 9 : Digits[v + 1] = d[Len(d)])

\* Whether d is the decimal numeral of n: digits only, no leading zero.
IsNumeral(d, n) ==
    /\ Len(d) >= 1
    /\ \A i \in 1 .. Len(d) : \E v \in 0 .. 9 : Digits[v + 1] = d[i]
    /\ Len(d) > 1 => d[1] # "0"
    /\ DecimalValue(d) = n

\* Whether text is the numeral of n followed by the characters of unit.
NumeralWith(text, n, unit) ==
    /\ Len(text) > Len(unit)
    /\ SubSeq(text, Len(text) - Len(unit) + 1, Len(text)) = unit
    /\ IsNumeral(SubSeq(text, 1, Len(text) - Len(unit)), n)

\* C26: format_duration(n), n >= 0, is "{n}s" when n < 60, "{n div 60}m"
\* when 60 <= n < 3600, and otherwise, with h = n div 3600 and
\* m = (n mod 3600) div 60, "{h}h" when m = 0 and "{h}h {m}m" when not; the
\* hours may be more than 24.
C26_FormatDuration ==
    reply.op = "format_duration"
    => LET n == reply.seconds
           r == reply.result
           h == n \div 3600
           m == (n % 3600) \div 60
       IN IF n < 60 THEN NumeralWith(r, n, <<"s">>)
          ELSE IF n < 3600 THEN NumeralWith(r, n \div 60, <<"m">>)
          ELSE IF m = 0 THEN NumeralWith(r, h, <<"h">>)
          ELSE \E k \in 1 .. Len(r) :
                  /\ NumeralWith(SubSeq(r, 1, k), h, <<"h">>)
                  /\ k < Len(r) /\ r[k + 1] = " "
                  /\ NumeralWith(SubSeq(r, k + 2, Len(r)), m, <<"m">>)

\* C26 witness: 25 hours and 59 minutes and 59 seconds are "25h 59m".
C26_Witness ==
    /\ reply.op = "format_duration"
    /\ reply.seconds = 25 * 3600 + 59 * 60 + 59
    /\ reply.result = <<"2", "5", "h", " ", "5", "9", "m">>

\* The users of the allowlist of a setting of AdminUserIds.
AllowlistOf(setting) ==
    IF setting = <<"1", ",", " ", "3", ",">> THEN {1, 3} ELSE {}

InvokerIsAdmin == interaction.user \in AllowlistOf(interaction.admin_user_ids)

Rejections == {Some(NeedGuildId), Some(ServerOnly), Some(InvalidDate)}

\* C24: a query of the store in a direct message is made for an admin of
\* the allowlist only; a query from a guild is for that guild, whatever
\* guild_id is; and a user who is no admin, in a direct message, gets the
\* rejection "This command can only be used in a server." as the one reply,
\* with no query.
C24_AdminOnlyOverride ==
    /\ \A q \in 1 .. Len(interaction.queried) :
          IF interaction.guild = None THEN InvokerIsAdmin
          ELSE interaction.queried[q].guild_id = str(Val(interaction.guild))
    /\ (interaction.pc # "idle" /\ interaction.guild = None /\ ~InvokerIsAdmin)
       => /\ interaction.pc \in {"send_message", "returned"}
          /\ interaction.message = Some(ServerOnly)
          /\ interaction.queried = <<>>
          /\ interaction.deferrals = 0
          /\ interaction.pc = "returned" => interaction.responses = 1

\* C24 witness: user 2, not in the allowlist "1, 3,", asked in a direct
\* message for guild 8 and was answered with the rejection.
C24_Witness ==
    /\ interaction.pc = "returned"
    /\ interaction.guild = None
    /\ interaction.user = 2
    /\ interaction.admin_user_ids # <<>>
    /\ interaction.guild_id = Some(<<"8">>)
    /\ interaction.responses = 1
    /\ interaction.queried = <<>>

\* A date in the form YYYY-MM-DD: ten characters, four digits of a year, two
\* of a month and two of a day of that month, with "-" between them.
ValidDate(text) ==
    /\ Len(text) = 10
    /\ \A i \in {1, 2, 3, 4, 6, 7, 9, 10} :
          text[i] \in {"0", "1", "2", "3", "4", "5", "6", "7", "8", "9"}
    /\ text[5] = "-" /\ text[8] = "-"
    /\ LET year == DecimalValue(SubSeq(text, 1, 4))
           month == DecimalValue(SubSeq(text, 6, 7))
           day == DecimalValue(SubSeq(text, 9, 10))
           leap == year % 4 = 0 /\ (year % 100 # 0 \/ year % 400 = 0)
           days == <<31, IF leap THEN 29 ELSE 28, 31, 30, 31, 30, 31, 31, 30,
                     31, 30, 31>>
       IN year >= 1 /\ month \in 1 .. 12 /\ day >= 1 /\ day <= days[month]

InvalidDateGiven ==
    \/ interaction.start_date # None /\ ~ValidDate(Val(interaction.start_date))
    \/ interaction.end_date # None /\ ~ValidDate(Val(interaction.end_date))

\* C23: an invocation with a start_date or an end_date that is no valid
\* YYYY-MM-DD date raises nothing, makes no call of get_guild_leaderboards
\* and ends with one rejection message as its reply.
C23_InvalidDateRejected ==
    (interaction.pc # "idle" /\ InvalidDateGiven)
    => /\ interaction.pc \in {"send_message", "returned"}
       /\ interaction.message \in Rejections
       /\ interaction.queried = <<>>
       /\ interaction.pc = "returned" => interaction.responses = 1

\* C29: an invocation that has ended has returned, raising nothing, after
\* one immediate response and no deferral, or after one deferral and one
\* follow-up and no immediate response; and at no time has it made both an
\* immediate response and a deferral.
C29_ExactlyOneReply ==
    /\ interaction.responses + interaction.deferrals <= 1
    /\ interaction.followups <= interaction.deferrals
    /\ interaction.pc # "raised"
    /\ interaction.pc = "returned"
       => \/ /\ interaction.responses = 1
             /\ interaction.deferrals = 0
             /\ interaction.followups = 0
          \/ /\ interaction.responses = 0
             /\ interaction.deferrals = 1
             /\ interaction.followups = 1

====
